---- MODULE Spec2Model ----
(***************************************************************************)
(* Verification model of the afterglow-engine core: AudioAnalyzer          *)
(* (musiclib/audio_analyzer.py), the grain scorer / extractor / cloud      *)
(* synthesiser (musiclib/granular_maker.py) and the normaliser and loop    *)
(* optimiser (musiclib/dsp_utils.py).                                      *)
(*                                                                         *)
(* Number representation.  Samples are integers in hundredths of full      *)
(* scale (a sample value 20 is the float 0.20).  Every comparison the code *)
(* makes on floats is made here on exact rationals by cross-multiplying,   *)
(* so no threshold is rounded.  Times are integers in milliseconds; the    *)
(* code's int(seconds * sr) and int(ms * sr / 1000) are the truncating     *)
(* integer division (ms * sr) \div 1000.  Python's None is the empty       *)
(* tuple and an optional value v is <<v>>.                                 *)
(***************************************************************************)
EXTENDS Integers, Sequences, FiniteSets, TLC

VARIABLES
    audio,       \* the caller's mono buffer (sequence of samples)
    analyzer,    \* None or <<the AudioAnalyzer instance (record of its attributes)>>
    librosa,     \* what the librosa library computes for this buffer (STFT, onsets, centroid)
    result,      \* outcome of the last operation: returned value or raised exception
    history,     \* instrumentation: first computed mask and number of computations per cache key
    locals,      \* local variables of the function that is running
    pc           \* which function is running and where it stands

vars == <<audio, analyzer, librosa, result, history, locals, pc>>

None == <<>>
Some(v) == <<v>>

\* ------------------------------------------------------------------ bounds
MaxLen == 4

\* ------------------------------------------------------------- input sets
\* Sample values: silence and 0.20 of full scale.
Amps == {0, 20}

AudioBuffers == UNION {[1..n -> Amps] : n \in 1..MaxLen}

SampleRates == {-8, 0, 8}
\* window sizes in ms: negative, zero, positive but below one sample at 8 Hz,
\* two samples, and longer than every buffer
WindowSizes == {-125, 0, 100, 250, 1000}
HopSizes == {-125, 0, 125}

\* ----------------------------------------------------------- arithmetic
Abs(x) == IF x < 0 THEN -x ELSE x
Max(a, b) == IF a >= b THEN a ELSE b
Min(a, b) == IF a <= b THEN a ELSE b

\* np.sum, np.sum(x ** 2) and np.max(np.abs(x)), folded by halves
RECURSIVE SumSeq(_)
SumSeq(s) ==
    IF Len(s) = 0 THEN 0
    ELSE IF Len(s) = 1 THEN s[1]
    ELSE SumSeq(SubSeq(s, 1, Len(s) \div 2)) + SumSeq(SubSeq(s, Len(s) \div 2 + 1, Len(s)))

RECURSIVE SumSq(_)
SumSq(s) ==
    IF Len(s) = 0 THEN 0
    ELSE IF Len(s) = 1 THEN s[1] * s[1]
    ELSE SumSq(SubSeq(s, 1, Len(s) \div 2)) + SumSq(SubSeq(s, Len(s) \div 2 + 1, Len(s)))

RECURSIVE PeakAbs(_)
PeakAbs(s) ==
    IF Len(s) = 0 THEN 0
    ELSE IF Len(s) = 1 THEN Abs(s[1])
    ELSE Max(PeakAbs(SubSeq(s, 1, Len(s) \div 2)), PeakAbs(SubSeq(s, Len(s) \div 2 + 1, Len(s))))

\* audio[start:end] with Python's 0-based half-open indices, clamped to the buffer
Slice(s, start, end) ==
    LET lo == Min(Max(start, 0), Len(s))
        hi == Min(Max(end, lo), Len(s))
    IN  [i \in 1..(hi - lo) |-> s[lo + i]]

\* range(0, stop, step) for step > 0, as the sequence of its values
Range0(stop, step) ==
    LET n == IF stop <= 0 THEN 0 ELSE (stop + step - 1) \div step
    IN  [i \in 1..n |-> (i - 1) * step]

\* 10^(db/10) as the exact rational <<num, den>> in squared sample units
\* (1.0^2 = 10000): the power an RMS level of db decibels has
DbPower(db) ==
    CASE db = 0   -> <<10000, 1>>
      [] db = -10 -> <<1000, 1>>
      [] db = -20 -> <<100, 1>>
      [] db = -40 -> <<1, 1>>
      [] db = -60 -> <<1, 100>>
      [] db = -80 -> <<1, 10000>>

\* ------------------------------------------------------- dsp_utils levels
\* A level in dB is kept as the pair <<sum of squares, number of samples>> of
\* the segment it was measured on: rms_energy_db is 20*log10(sqrt(S/n)), or
\* min_db = -80 when the RMS is 0, or NaN for an empty segment (n = 0).
rms_energy_db(segment) == <<SumSq(segment), Len(segment)>>

\* level >= db, for a level measured by rms_energy_db (NaN compares false)
DbGE(level, db) ==
    LET S == level[1]
        n == level[2]
        p == DbPower(db)
    IN  IF n = 0 THEN FALSE
        ELSE IF S = 0 THEN -80 >= db
        ELSE S * p[2] >= p[1] * n

\* level <= db
DbLE(level, db) ==
    LET S == level[1]
        n == level[2]
        p == DbPower(db)
    IN  IF n = 0 THEN FALSE
        ELSE IF S = 0 THEN -80 <= db
        ELSE S * p[2] <= p[1] * n

\* ---------------------------------------------------------- AudioAnalyzer
Return(v) == [kind |-> "return", value |-> v]
Raise(e) == [kind |-> "raise", exc |-> e]

\* int(seconds * sr), the time given in milliseconds
SecToSamples(ms, rate) == (ms * rate) \div 1000

\* a constructor that forgets the hop check
AudioAnalyzer__init__no_hop_check(buf, rate, window_size_sec, hop_sec) ==
    IF rate <= 0 THEN Raise("ValueError")
    ELSE IF window_size_sec <= 0 THEN Raise("ValueError")
    ELSE Return([sr |-> rate,
                 window_size_sec |-> window_size_sec,
                 hop_sec |-> hop_sec,
                 window_size_samples |-> Min(SecToSamples(window_size_sec, rate), Len(buf)),
                 hop_samples |-> Max(SecToSamples(hop_sec, rate), 0),
                 rms_curve |-> None,
                 onset_frames |-> None,
                 spectral_centroid |-> None,
                 dc_offset |-> None,
                 crest_factor |-> None,
                 stability_mask |-> None,
                 stft_cache |-> None])

\* AudioAnalyzer.__init__: the exception it raises, or the new instance
AudioAnalyzer__init__(buf, rate, window_size_sec, hop_sec) ==
    IF rate <= 0 THEN Raise("ValueError")
    ELSE IF window_size_sec <= 0 THEN Raise("ValueError")
    ELSE IF hop_sec < 0 THEN Raise("ValueError")
    ELSE LET ws == SecToSamples(window_size_sec, rate)
             hs == SecToSamples(hop_sec, rate)
             clamp == ws > Len(buf)
         IN  Return([sr |-> rate,
                     window_size_sec |-> window_size_sec,
                     hop_sec |-> hop_sec,
                     window_size_samples |-> IF clamp THEN Len(buf) ELSE ws,
                     hop_samples |-> IF clamp THEN Len(buf) ELSE hs,
                     rms_curve |-> None,
                     onset_frames |-> None,
                     spectral_centroid |-> None,
                     dc_offset |-> None,
                     crest_factor |-> None,
                     stability_mask |-> None,
                     stft_cache |-> None])

\* window starts that run to the end of the buffer, a last partial window included
WindowStarts_with_partial(buf, an) ==
    Range0(Len(buf), an.hop_samples)

\* range(0, len(audio) - window_size_samples + 1, hop_samples): the window starts
WindowStarts(buf, an) ==
    Range0(Len(buf) - an.window_size_samples + 1, an.hop_samples)

WindowSegment(buf, an, start) == Slice(buf, start, start + an.window_size_samples)

\* Each _compute_* returns the analyzer with its cache filled, and whether it
\* returned (ok) or raised ValueError.
compute_rms_curve(buf, an) ==
    IF an.rms_curve # None THEN [an |-> an, ok |-> TRUE]
    ELSE IF an.hop_samples = 0 THEN [an |-> an, ok |-> FALSE]   \* range() arg 3 must not be zero
    ELSE [an |-> [an EXCEPT !.rms_curve =
                    Some([i \in 1..Len(WindowStarts(buf, an)) |->
                            rms_energy_db(WindowSegment(buf, an, WindowStarts(buf, an)[i]))])],
          ok |-> TRUE]

\* a _get_stft that does not look at its cache: every call computes a new object
get_stft_uncached(an, lib) ==
    IF lib.stft_ok
    THEN [an |-> [an EXCEPT !.stft_cache = IF @ = None THEN Some("stft") ELSE Some("stft again")],
          ok |-> TRUE]
    ELSE [an |-> an, ok |-> FALSE]

\* _get_stft: computed once, then the cached object; a failing transform leaves the cache empty
get_stft(an, lib) ==
    IF an.stft_cache # None THEN [an |-> an, ok |-> TRUE]
    ELSE IF lib.stft_ok THEN [an |-> [an EXCEPT !.stft_cache = Some("stft")], ok |-> TRUE]
    ELSE [an |-> an, ok |-> FALSE]

\* _compute_onset_density: onset sample positions; any failure yields the empty array
onsets_from_stft(st, lib) ==
    IF st.ok THEN [st.an EXCEPT !.onset_frames = Some(lib.onsets)]
    ELSE [st.an EXCEPT !.onset_frames = Some({})]

compute_onset_density(an, lib) ==
    IF an.onset_frames # None THEN an
    ELSE onsets_from_stft(get_stft(an, lib), lib)

\* _compute_spectral_centroid: one centroid (Hz) per window; 2000 Hz on any failure
centroid_fallback(r) ==
    IF r.ok
    THEN [an |-> [r.an EXCEPT !.spectral_centroid =
                    Some([i \in 1..Len(r.an.rms_curve[1]) |-> 2000])],
          ok |-> TRUE]
    ELSE [an |-> r.an, ok |-> FALSE]

centroid_from_stft(buf, st, lib) ==
    IF st.ok /\ st.an.hop_samples # 0
    THEN [an |-> [st.an EXCEPT !.spectral_centroid =
                    Some([i \in 1..Len(WindowStarts(buf, st.an)) |->
                            IF WindowStarts(buf, st.an)[i] < lib.bright_from
                            THEN 1000 ELSE 3000])],
          ok |-> TRUE]
    ELSE centroid_fallback(compute_rms_curve(buf, st.an))

compute_spectral_centroid(buf, an, lib) ==
    IF an.spectral_centroid # None THEN [an |-> an, ok |-> TRUE]
    ELSE centroid_from_stft(buf, get_stft(an, lib), lib)

\* _compute_dc_offset: |mean| per window, kept as <<|sum|, n>>
compute_dc_offset(buf, an) ==
    IF an.dc_offset # None THEN [an |-> an, ok |-> TRUE]
    ELSE IF an.hop_samples = 0 THEN [an |-> an, ok |-> FALSE]
    ELSE [an |-> [an EXCEPT !.dc_offset =
                    Some([i \in 1..Len(WindowStarts(buf, an)) |->
                            <<Abs(SumSeq(WindowSegment(buf, an, WindowStarts(buf, an)[i]))),
                              Len(WindowSegment(buf, an, WindowStarts(buf, an)[i]))>>])],
          ok |-> TRUE]

\* _compute_crest_factor: peak / rms per window, kept as <<peak, sum of squares, n>>;
\* np.max of an empty window raises ValueError
crest_from_rms(buf, r) ==
    IF ~r.ok THEN [an |-> r.an, ok |-> FALSE]
    ELSE IF r.an.window_size_samples = 0 THEN [an |-> r.an, ok |-> FALSE]
    ELSE [an |-> [r.an EXCEPT !.crest_factor =
                    Some([i \in 1..Len(WindowStarts(buf, r.an)) |->
                            <<PeakAbs(WindowSegment(buf, r.an, WindowStarts(buf, r.an)[i])),
                              SumSq(WindowSegment(buf, r.an, WindowStarts(buf, r.an)[i])),
                              Len(WindowSegment(buf, r.an, WindowStarts(buf, r.an)[i]))>>])],
          ok |-> TRUE]

compute_crest_factor(buf, an) ==
    IF an.crest_factor # None THEN [an |-> an, ok |-> TRUE]
    ELSE crest_from_rms(buf, compute_rms_curve(buf, an))

\* The gate parameters of get_stable_regions.  max_dc_offset is in hundredths
\* (10 is 0.1); centroid bounds are None or <<Hz>>.
DefaultGates == [max_onset_rate |-> 3, rms_low_db |-> -40, rms_high_db |-> -10,
                 max_dc_offset |-> 10, max_crest |-> 10,
                 centroid_low_hz |-> None, centroid_high_hz |-> None]

\* a key that leaves the bias gate out
cache_key_without_dc(an, g) ==
    <<g.max_onset_rate, g.rms_low_db, g.rms_high_db, g.max_crest,
      g.centroid_low_hz, g.centroid_high_hz, an.window_size_sec, an.hop_sec>>

cache_key(an, g) ==
    <<g.max_onset_rate, g.rms_low_db, g.rms_high_db, g.max_dc_offset, g.max_crest,
      g.centroid_low_hz, g.centroid_high_hz, an.window_size_sec, an.hop_sec>>

\* dc < max_dc_offset for dc = <<|sum|, n>> (NaN for an empty window)
DcBelow(dc, max_dc_offset) == dc[2] > 0 /\ dc[1] < max_dc_offset * dc[2]

\* crest < max_crest for crest = <<peak, S, n>>: peak / rms when rms > 1e-10, else 0.0
CrestBelow(c, max_crest) ==
    IF c[2] = 0 THEN 0 < max_crest
    ELSE max_crest > 0 /\ c[1] * c[1] * c[3] < max_crest * max_crest * c[2]

\* np.sum((onset_frames >= start) & (onset_frames < end))
OnsetsIn(onsets, start, end) == Cardinality({o \in onsets : o >= start /\ o < end})

\* Whether window i (1-based) passes every gate of get_stable_regions (lines 284-336)
WindowPasses(buf, an, g, i) ==
    /\ DbGE(an.rms_curve[1][i], g.rms_low_db) /\ DbLE(an.rms_curve[1][i], g.rms_high_db)
    /\ DcBelow(an.dc_offset[1][i], g.max_dc_offset)
    /\ CrestBelow(an.crest_factor[1][i], g.max_crest)
    /\ (g.centroid_low_hz # None => an.spectral_centroid[1][i] >= g.centroid_low_hz[1])
    /\ (g.centroid_high_hz # None => an.spectral_centroid[1][i] <= g.centroid_high_hz[1])
    \* onset_rate = onsets / (window_size_samples / sr) > max_onset_rate clears the window
    /\ ~ (OnsetsIn(an.onset_frames[1], (i - 1) * an.hop_samples,
                   (i - 1) * an.hop_samples + an.window_size_samples) * an.sr
            > g.max_onset_rate * an.window_size_samples)

\* The mask get_stable_regions builds from the cached features (lines 275-336)
BuildMask(buf, an, g) == [i \in 1..Len(an.rms_curve[1]) |-> WindowPasses(buf, an, g, i)]

\* self._stability_mask[cache_key] = mask
DictPut(dict, key, mask) ==
    [k \in (DOMAIN dict) \cup {key} |-> IF k = key THEN mask ELSE dict[k]]

Failed(an) == [an |-> an, out |-> Raise("ValueError"), hit |-> FALSE]

\* a cache with a single slot: storing a mask drops the masks of other keys
gsr_store_single_slot(an, key, mask) ==
    [an |-> [an EXCEPT !.stability_mask = Some([k \in {key} |-> mask])],
     out |-> Return(mask), hit |-> FALSE]

\* get_stable_regions after the cache lookup, one stage per feature (lines 275-339)
gsr_store(an, key, mask) ==
    [an |-> [an EXCEPT !.stability_mask = Some(DictPut(an.stability_mask[1], key, mask))],
     out |-> Return(mask), hit |-> FALSE]

gsr_mask(buf, r, g, key) ==
    IF ~r.ok THEN Failed(r.an) ELSE gsr_store(r.an, key, BuildMask(buf, r.an, g))

gsr_centroid(buf, r, lib, g, key) ==
    IF ~r.ok THEN Failed(r.an)
    ELSE gsr_mask(buf,
                  IF g.centroid_low_hz # None \/ g.centroid_high_hz # None
                  THEN compute_spectral_centroid(buf, r.an, lib) ELSE r,
                  g, key)

gsr_crest(buf, r, lib, g, key) ==
    IF ~r.ok THEN Failed(r.an)
    ELSE gsr_centroid(buf, compute_crest_factor(buf, r.an), lib, g, key)

gsr_dc(buf, r, lib, g, key) ==
    IF ~r.ok THEN Failed(r.an)
    ELSE gsr_crest(buf, compute_dc_offset(buf, compute_onset_density(r.an, lib)), lib, g, key)

\* AudioAnalyzer.get_stable_regions: the analyzer afterwards, the outcome, and
\* whether the mask was taken from the cache (hit) or computed
get_stable_regions(buf, an, lib, g) ==
    IF an.stability_mask # None /\ cache_key(an, g) \in DOMAIN an.stability_mask[1]
    THEN [an |-> an, out |-> Return(an.stability_mask[1][cache_key(an, g)]), hit |-> TRUE]
    ELSE gsr_dc(buf,
                compute_rms_curve(buf, IF an.stability_mask = None
                                       THEN [an EXCEPT !.stability_mask = Some(<<>>)] ELSE an),
                lib, g, cache_key(an, g))

\* get_sample_range_for_window
get_sample_range_for_window(buf, an, window_idx) ==
    <<window_idx * an.hop_samples,
      Min(window_idx * an.hop_samples + an.window_size_samples, Len(buf))>>

\* The runs sample_from_stable_region finds: <<first window, one past the last>>
\* (0-based) for every maximal run of TRUE of length >= min_stable_windows
ConsecutiveRuns(mask, min_stable_windows) ==
    LET padded(i) == IF i >= 1 /\ i <= Len(mask) THEN mask[i] ELSE FALSE
        run_starts == {i \in 1..Len(mask) : padded(i) /\ ~padded(i - 1)}
        run_end(s) == CHOOSE e \in s..Len(mask) :
                         /\ \A j \in s..e : padded(j)
                         /\ ~padded(e + 1)
    IN  {<<s - 1, run_end(s)>> : s \in {t \in run_starts : run_end(t) - (t - 1) >= min_stable_windows}}

\* the region starting at window w, extended to the duration and clamped (lines 473-478)
RegionAt(buf, an, w, duration_samples) ==
    Some(<<get_sample_range_for_window(buf, an, w)[1],
           Min(get_sample_range_for_window(buf, an, w)[1] + duration_samples, Len(buf))>>)

\* a sampler whose window draw includes the run's end index
sample_from_stable_region_inclusive(buf, an, duration_sec, min_stable_windows, stable_mask) ==
    IF \A i \in 1..Len(stable_mask) : ~stable_mask[i] THEN {None}
    ELSE IF ConsecutiveRuns(stable_mask, min_stable_windows) = {} THEN {None}
    ELSE {RegionAt(buf, an, w, SecToSamples(duration_sec, an.sr)) :
            w \in UNION {run[1]..run[2] :
                           run \in ConsecutiveRuns(stable_mask, min_stable_windows)}}

\* sample_from_stable_region: the set of values it can return for a given mask,
\* one per outcome of its two random draws; {None} when it reports no region
sample_from_stable_region(buf, an, duration_sec, min_stable_windows, stable_mask) ==
    IF \A i \in 1..Len(stable_mask) : ~stable_mask[i] THEN {None}
    ELSE IF ConsecutiveRuns(stable_mask, min_stable_windows) = {} THEN {None}
    ELSE {RegionAt(buf, an, w, SecToSamples(duration_sec, an.sr)) :
            w \in UNION {run[1]..(run[2] - 1) :
                           run \in ConsecutiveRuns(stable_mask, min_stable_windows)}}

\* ------------------------------------------------ analyzer: specification
\* What librosa can compute for a buffer: the transform fails, or it works and
\* finds at most one onset and a centroid that is 1000 Hz before sample
\* bright_from and 3000 Hz from it on.
LibrosaChoices(buf) ==
    {[stft_ok |-> FALSE, onsets |-> {}, bright_from |-> 0],
     [stft_ok |-> TRUE, onsets |-> {}, bright_from |-> Len(buf)],
     [stft_ok |-> TRUE, onsets |-> {0}, bright_from |-> 1],
     [stft_ok |-> TRUE, onsets |-> {Len(buf) - 1}, bright_from |-> 0]}

\* The defaults (every window holding a 0.20 sample fails max_dc_offset = 0.1),
\* the defaults with a bias gate of 0.15, and a loose bias gate with a looser
\* onset gate and a brightness bound
GateChoices ==
    {DefaultGates,
     [DefaultGates EXCEPT !.max_dc_offset = 15],
     [DefaultGates EXCEPT !.max_dc_offset = 30, !.max_onset_rate = 5,
                          !.centroid_high_hz = Some(2000)]}

\* durations in ms: below one sample at 8 Hz, and two samples
Durations == {100, 250}
MinStableWindows == {1, 2}

NoHistory == [count |-> <<>>, first |-> <<>>]

InitAnalyzer ==
    /\ audio \in AudioBuffers
    /\ analyzer = None
    /\ librosa \in LibrosaChoices(audio)
    /\ result = [op |-> "none"]
    /\ history = NoHistory
    /\ locals = None
    /\ pc = "new"

\* analyzer = AudioAnalyzer(audio, sr, window_size_sec, hop_sec)
Constructed(r, rate, w, h) ==
    /\ analyzer' = IF r.kind = "return" THEN Some(r.value) ELSE None
    /\ result' = [op |-> "__init__", sr |-> rate, window_size_sec |-> w,
                  hop_sec |-> h, out |-> r]
    /\ pc' = IF r.kind = "return" THEN "ready" ELSE "failed"

Construct ==
    /\ pc = "new"
    /\ \E rate \in SampleRates, w \in WindowSizes, h \in HopSizes :
         Constructed(AudioAnalyzer__init__(audio, rate, w, h), rate, w, h)
    /\ UNCHANGED <<audio, librosa, history, locals>>

\* instrumentation: count a computation of the mask for key, remember the first mask
Record(h, key, mask) ==
    [count |-> [k \in (DOMAIN h.count) \cup {key} |->
                  IF k = key
                  THEN (IF key \in DOMAIN h.count THEN h.count[key] ELSE 0) + 1
                  ELSE h.count[k]],
     first |-> [k \in (DOMAIN h.first) \cup {key} |->
                  IF k \in DOMAIN h.first THEN h.first[k] ELSE mask]]

\* the analyzer and the instrumentation after a get_stable_regions call r for gates g
MaskCallDone(r, g) ==
    /\ analyzer' = Some(r.an)
    /\ history' = IF r.out.kind = "return" /\ ~r.hit
                  THEN Record(history, cache_key(analyzer[1], g), r.out.value)
                  ELSE history

\* mask = analyzer.get_stable_regions(**gates, verbose=...)
GotStableRegions(r, g) ==
    /\ MaskCallDone(r, g)
    /\ result' = [op |-> "get_stable_regions", gates |-> g, hit |-> r.hit, out |-> r.out]

GetStableRegions ==
    /\ pc = "ready"
    /\ \E g \in GateChoices, verbose \in BOOLEAN :
         GotStableRegions(get_stable_regions(audio, analyzer[1], librosa, g), g)
    /\ UNCHANGED <<audio, librosa, locals, pc>>

\* region = analyzer.sample_from_stable_region(duration, min_stable_windows, stable_mask)
Sampled(an, d, m, mask) ==
    \E v \in sample_from_stable_region(audio, an, d, m, mask) :
       result' = [op |-> "sample_from_stable_region", duration_sec |-> d,
                  min_stable_windows |-> m, stable_mask |-> mask, out |-> Return(v)]

\* stable_mask = None: the default gates' mask is computed (or fetched) first
SampledDefault(r, d, m) ==
    /\ MaskCallDone(r, DefaultGates)
    /\ IF r.out.kind = "raise"
       THEN result' = [op |-> "sample_from_stable_region", duration_sec |-> d,
                       min_stable_windows |-> m, stable_mask |-> None, out |-> r.out]
       ELSE Sampled(r.an, d, m, r.out.value)

\* stable_mask is a mask this analyzer returned earlier, or None
SampleFromStableRegion ==
    /\ pc = "ready"
    /\ \E d \in Durations, m \in MinStableWindows :
         \/ /\ analyzer[1].stability_mask # None
            /\ \E key \in DOMAIN analyzer[1].stability_mask[1] :
                 Sampled(analyzer[1], d, m, analyzer[1].stability_mask[1][key])
            /\ UNCHANGED <<analyzer, history>>
         \/ SampledDefault(get_stable_regions(audio, analyzer[1], librosa, DefaultGates), d, m)
    /\ UNCHANGED <<audio, librosa, locals, pc>>

NextAnalyzer == Construct \/ GetStableRegions \/ SampleFromStableRegion

SpecAnalyzer == InitAnalyzer /\ [][NextAnalyzer]_vars

\* ------------------------------------------------- analyzer: properties
TheDict == IF analyzer = None \/ analyzer[1].stability_mask = None
           THEN <<>> ELSE analyzer[1].stability_mask[1]

\* the mask a newly built analyzer with the same parameters computes for gates g
FreshMask(g) ==
    get_stable_regions(audio,
                       AudioAnalyzer__init__(audio, analyzer[1].sr, analyzer[1].window_size_sec,
                                             analyzer[1].hop_sec).value,
                       librosa, g).out.value

\* C1: the mask cache is keyed by the full gate tuple.  Every stored mask is
\* the one first computed for its key and was computed once; a call returns
\* the mask stored under its own tuple, which is the mask its own gates
\* define, never the mask of another tuple; masks of different tuples coexist.
C1_CacheKeyed ==
    analyzer # None =>
      /\ DOMAIN TheDict = DOMAIN history.first
      /\ \A k \in DOMAIN TheDict : TheDict[k] = history.first[k] /\ history.count[k] = 1
      /\ (result.op = "get_stable_regions" /\ result.out.kind = "return") =>
           /\ cache_key(analyzer[1], result.gates) \in DOMAIN TheDict
           /\ result.out.value = TheDict[cache_key(analyzer[1], result.gates)]
           /\ result.out.value = FreshMask(result.gates)

\* a call answered from the cache while another tuple holds a different mask
C1_Witness ==
    /\ result.op = "get_stable_regions"
    /\ result.out.kind = "return"
    /\ result.hit
    /\ \E k1, k2 \in DOMAIN TheDict : TheDict[k1] # TheDict[k2]

\* window w (0-based) lies in a run of TRUE windows of length >= m
InQualifyingRun(mask, w, m) ==
    \E a \in 1..Len(mask), b \in 1..Len(mask) :
       /\ a <= w + 1 /\ w + 1 <= b
       /\ b - a + 1 >= m
       /\ \A j \in a..b : mask[j]

HasQualifyingRun(mask, m) == \E w \in 0..(Len(mask) - 1) : InQualifyingRun(mask, w, m)

\* C5: given a mask of this analyzer with a run of at least min_stable_windows
\* true windows and a duration of at least one sample,
\* sample_from_stable_region returns (start, end) with
\* 0 <= start < end <= len(audio), start being the first sample of a true
\* window inside such a run.
C5_StableRegion ==
    (/\ result.op = "sample_from_stable_region"
     /\ result.out.kind = "return"
     /\ HasQualifyingRun(result.stable_mask, result.min_stable_windows)
     /\ SecToSamples(result.duration_sec, analyzer[1].sr) >= 1)
    => /\ result.out.value # None
       /\ 0 <= result.out.value[1][1]
       /\ result.out.value[1][1] < result.out.value[1][2]
       /\ result.out.value[1][2] <= Len(audio)
       /\ \E w \in 0..(Len(result.stable_mask) - 1) :
                    /\ result.out.value[1][1] = w * analyzer[1].hop_samples
                    /\ result.stable_mask[w + 1]
                    /\ InQualifyingRun(result.stable_mask, w, result.min_stable_windows)

\* the first run qualifies and the region returned starts at sample 0
C5_Witness ==
    /\ result.op = "sample_from_stable_region"
    /\ result.out.kind = "return"
    /\ result.min_stable_windows = 2
    /\ Len(result.stable_mask) >= 2
    /\ InQualifyingRun(result.stable_mask, 0, 2)
    /\ result.out.value # None
    /\ result.out.value[1][1] = 0
    /\ result.out.value[1][2] > 0

InvalidCtorArgs ==
    result.op = "__init__" /\ (result.sr <= 0 \/ result.window_size_sec <= 0 \/ result.hop_sec < 0)

\* C6 as stated: construction with sample_rate <= 0, window_size_sec <= 0 or
\* hop_sec < 0 fails with InvalidParameter and produces no analyzer.
C6_Original ==
    InvalidCtorArgs => result.out = Raise("InvalidParameter") /\ analyzer = None

\* C6 amended: construction with sample_rate <= 0, window_size_sec <= 0 or
\* hop_sec < 0 fails with ValueError and produces no analyzer.
C6_RaisesValueError ==
    InvalidCtorArgs => result.out = Raise("ValueError") /\ analyzer = None

\* a negative hop with a valid rate and window was rejected
C6_Witness ==
    /\ result.op = "__init__"
    /\ result.sr > 0 /\ result.window_size_sec > 0 /\ result.hop_sec < 0
    /\ result.out.kind = "raise"
    /\ analyzer = None

\* C7: a non-positive window or hop, or one that amounts to zero samples, is
\* rejected at construction; a constructed analyzer keeps the window and hop
\* it was given, and no later mask or sampling operation on it fails.
C7_FailFast ==
    /\ (result.op = "__init__" /\ result.sr > 0 /\
          (\/ result.window_size_sec <= 0 \/ result.hop_sec <= 0
           \/ SecToSamples(result.window_size_sec, result.sr) = 0
           \/ SecToSamples(result.hop_sec, result.sr) = 0))
       => result.out.kind = "raise"
    /\ result.op \in {"get_stable_regions", "sample_from_stable_region"}
       => result.out.kind = "return"

\* ------------------------------------------------- dsp_utils.normalize_audio
\* normalize_audio is modelled on samples in units of 1e-9 of full scale, so
\* that levels on both sides of the 1e-8 silence threshold exist; its output
\* samples are exact fractions <<numerator, denominator>> in lowest terms.
MaxNormLen == 2

\* 5e-9 (below the threshold), 1e-8 (the threshold itself), 0.25 and -1.0
NanoAmps == {0, 5, 10, 250000000, -1000000000}
NormBuffers == UNION {[1..n -> NanoAmps] : n \in 1..MaxNormLen}
TargetDbs == {-20, 0, 20}

RECURSIVE GCD(_, _)
GCD(a, b) == IF b = 0 THEN a ELSE GCD(b, a % b)

Frac(n, d) == <<n \div GCD(Abs(n), d), d \div GCD(Abs(n), d)>>

\* a/b < c/d for a, c >= 0 and b, d > 0, without forming the cross products
RECURSIVE FracLess(_, _, _, _)
FracLess(a, b, c, d) ==
    IF a \div b # c \div d THEN a \div b < c \div d
    ELSE IF c % d = 0 THEN FALSE
    ELSE IF a % b = 0 THEN TRUE
    ELSE FracLess(d, c % d, b, a % b)

\* 10 ** (db / 20.0)
db_to_linear(db) ==
    CASE db = 20  -> <<10, 1>>
      [] db = 0   -> <<1, 1>>
      [] db = -20 -> <<1, 10>>

\* np.clip(x, -1.0, 1.0)
Clip(x) == IF x[1] > x[2] THEN <<1, 1>> ELSE IF x[1] < -x[2] THEN <<-1, 1>> ELSE x

\* audio * (target_linear / peak)
Scaled(sample, peak, t) ==
    Frac(Frac(sample, peak)[1] * t[1], Frac(sample, peak)[2] * t[2])

\* normalize_audio without the final clip
normalize_audio_no_clip(buf, target_peak_dbfs) ==
    IF Len(buf) = 0 THEN Raise("ValueError")
    ELSE IF PeakAbs(buf) < 10 THEN Raise("SilentArtifact")
    ELSE Return([i \in 1..Len(buf) |->
                   Scaled(buf[i], PeakAbs(buf), db_to_linear(target_peak_dbfs))])

\* normalize_audio (buffers here are finite, so the NaN/Inf checks pass)
normalize_audio(buf, target_peak_dbfs) ==
    IF Len(buf) = 0 THEN Raise("ValueError")
    ELSE IF PeakAbs(buf) < 10 THEN Raise("SilentArtifact")    \* peak < 1e-8
    ELSE Return([i \in 1..Len(buf) |->
                   Clip(Scaled(buf[i], PeakAbs(buf), db_to_linear(target_peak_dbfs)))])

InitNormalize ==
    /\ audio \in NormBuffers
    /\ analyzer = None
    /\ librosa = None
    /\ result = [op |-> "none"]
    /\ history = NoHistory
    /\ locals = None
    /\ pc = "normalize"

\* normalized = normalize_audio(audio, target_peak_dbfs)
Normalize ==
    /\ pc = "normalize"
    /\ \E t \in TargetDbs :
         result' = [op |-> "normalize_audio", target_peak_dbfs |-> t,
                    out |-> normalize_audio(audio, t)]
    /\ UNCHANGED <<audio, analyzer, librosa, history, locals, pc>>

NextNormalize == Normalize

SpecNormalize == InitNormalize /\ [][NextNormalize]_vars

\* x is the largest magnitude among the fractions of out
IsPeakOf(x, out) ==
    /\ \E i \in 1..Len(out) : <<Abs(out[i][1]), out[i][2]>> = x
    /\ \A i \in 1..Len(out) : ~FracLess(x[1], x[2], Abs(out[i][1]), out[i][2])

InUnitRange(out) == \A i \in 1..Len(out) : Abs(out[i][1]) <= out[i][2]

\* C2 as stated: a buffer whose peak is below 1e-8 raises SilentArtifact; for
\* any other buffer and every target level the output peak equals
\* 10^(target_dB/20) and every output sample lies within [-1, 1].
C2_Original ==
    result.op = "normalize_audio" =>
      IF PeakAbs(audio) < 10
      THEN result.out = Raise("SilentArtifact")
      ELSE /\ result.out.kind = "return"
           /\ IsPeakOf(db_to_linear(result.target_peak_dbfs), result.out.value)
           /\ InUnitRange(result.out.value)

\* C2 amended: a buffer whose peak is below 1e-8 raises SilentArtifact; for any
\* other buffer the output peak equals min(1, 10^(target_dB/20)), that is the
\* target level for targets up to 0 dBFS and full scale above, and every
\* output sample lies within [-1, 1].
C2_NormalizeClipped ==
    result.op = "normalize_audio" =>
      IF PeakAbs(audio) < 10
      THEN result.out = Raise("SilentArtifact")
      ELSE /\ result.out.kind = "return"
           /\ IsPeakOf(IF result.target_peak_dbfs > 0 THEN <<1, 1>>
                       ELSE db_to_linear(result.target_peak_dbfs), result.out.value)
           /\ InUnitRange(result.out.value)

\* a two-sample buffer with distinct levels normalised to -20 dBFS, and one
\* whose +20 dB target was clipped to full scale
C2_Witness ==
    /\ result.op = "normalize_audio"
    /\ result.out.kind = "return"
    /\ Len(audio) = 2 /\ Abs(audio[1]) # Abs(audio[2])
    /\ \/ result.target_peak_dbfs = -20 /\ IsPeakOf(<<1, 10>>, result.out.value)
       \/ result.target_peak_dbfs = 20 /\ IsPeakOf(<<1, 1>>, result.out.value)

\* ------------------------------------- granular_maker.analyze_grain_quality
\* Grains are sequences of samples in hundredths; scores are exact fractions.
LongGrain == 256

FracMul(a, b) == Frac(a[1] * b[1], a[2] * b[2])

\* rms < level, the level in hundredths given as num/den (0.005 is 1/2)
RmsBelow(grain, num, den) == SumSq(grain) * den * den < num * num * Len(grain)

\* np.abs(np.mean(grain)) > level, the level in hundredths
MeanAbsAbove(grain, level) == Abs(SumSeq(grain)) > level * Len(grain)

\* peak / (rms + 1e-6) > k.  With p = peak, S = sum of squares, n = len (p, S in
\* hundredths), this is p > k*(sqrt(S/n) + 0.0001), which for p >= 1 is
\*   10^8 * (n*p*p - k*k*S)  >  10^4 * (2*k*n*p) - k*k*n ;
\* the three cases below decide it without forming the large products.
CrestAbove(grain, k) ==
    /\ PeakAbs(grain) >= 1
    /\ \/ Len(grain) * PeakAbs(grain) * PeakAbs(grain) - k * k * SumSq(grain)
            > (2 * k * Len(grain) * PeakAbs(grain)) \div 10000
       \/ /\ Len(grain) * PeakAbs(grain) * PeakAbs(grain) - k * k * SumSq(grain)
               = (2 * k * Len(grain) * PeakAbs(grain)) \div 10000
          /\ k * k * Len(grain) > 10000 * ((2 * k * Len(grain) * PeakAbs(grain)) % 10000)

first_half_energy(grain) == SumSq(Slice(grain, 0, Len(grain) \div 2))
second_half_energy(grain) == SumSq(Slice(grain, Len(grain) \div 2, Len(grain)))

\* skew = |first - second| / total > num/den, checked when len > 10 and total > 0
SkewAbove(grain, num, den) ==
    /\ Len(grain) > 10
    /\ SumSq(grain) > 0
    /\ den * Abs(first_half_energy(grain) - second_half_energy(grain)) > num * SumSq(grain)

DefaultChecks == [check_silence |-> TRUE, check_dc |-> TRUE,
                  check_clipping |-> TRUE, check_skew |-> TRUE]

\* the penalties of analyze_grain_quality, applied in the code's order (lines 61-100)
aq_skew_assigns(grain, c, score) ==
    IF c.check_skew /\ SkewAbove(grain, 85, 100) THEN <<3, 10>>
    ELSE IF c.check_skew /\ SkewAbove(grain, 7, 10) THEN <<3, 5>>
    ELSE score

aq_skew(grain, c, score) ==
    IF c.check_skew /\ SkewAbove(grain, 85, 100) THEN FracMul(score, <<3, 10>>)
    ELSE IF c.check_skew /\ SkewAbove(grain, 7, 10) THEN FracMul(score, <<3, 5>>)
    ELSE score

aq_crest(grain, c, score) ==
    aq_skew(grain, c,
            IF c.check_clipping /\ CrestAbove(grain, 15) THEN FracMul(score, <<2, 5>>)
            ELSE IF c.check_clipping /\ CrestAbove(grain, 10) THEN FracMul(score, <<3, 5>>)
            ELSE score)

aq_peak(grain, c, score) ==
    aq_crest(grain, c,
             IF c.check_clipping /\ PeakAbs(grain) > 98 THEN FracMul(score, <<3, 10>>)
             ELSE IF c.check_clipping /\ PeakAbs(grain) > 95 THEN FracMul(score, <<1, 2>>)
             ELSE score)

aq_dc(grain, c, score) ==
    aq_peak(grain, c,
            IF c.check_dc /\ MeanAbsAbove(grain, 15) THEN FracMul(score, <<1, 2>>)
            ELSE IF c.check_dc /\ MeanAbsAbove(grain, 8) THEN FracMul(score, <<3, 4>>)
            ELSE score)

aq_silence(grain, c, score) ==
    aq_dc(grain, c,
          IF c.check_silence /\ RmsBelow(grain, 1, 2) THEN FracMul(score, <<1, 10>>)
          ELSE IF c.check_silence /\ RmsBelow(grain, 1, 1) THEN FracMul(score, <<3, 10>>)
          ELSE score)

\* max(0.0, min(1.0, score))
ClampUnit(score) ==
    IF score[1] < 0 THEN <<0, 1>> ELSE IF score[1] > score[2] THEN <<1, 1>> ELSE score

\* analyze_grain_quality(grain, sr, check_silence, check_dc, check_clipping, check_skew)
analyze_grain_quality(grain, rate, c) ==
    IF Len(grain) < 2 THEN <<1, 10>>
    ELSE ClampUnit(aq_silence(grain, c, <<1, 1>>))

\* Grains to score: length n, the first half at level a and the second at level
\* b, of constant or alternating sign, optionally with one sample replaced by
\* a spike.
ShapedGrain(n, a, b, alt, spike) ==
    [i \in 1..n |->
       IF spike # 0 /\ i = 1 THEN spike
       ELSE (IF i <= n \div 2 THEN a ELSE b) * (IF alt /\ i % 2 = 0 THEN -1 ELSE 1)]

GrainLengths == {0, 1, 2, 12, 144, LongGrain}

GrainLevels == {0, 1, 20, 40, 97, 100}

GrainInputs ==
    {ShapedGrain(n, a, b, alt, spike) :
       n \in GrainLengths, a \in GrainLevels, b \in GrainLevels,
       alt \in BOOLEAN, spike \in {0, 50}}

InitQuality ==
    /\ audio = <<>>
    /\ analyzer = None
    /\ librosa = None
    /\ result = [op |-> "none"]
    /\ history = NoHistory
    /\ locals \in [grain : GrainInputs]
    /\ pc = "score"

\* score = analyze_grain_quality(grain, sr)
ScoreGrain ==
    /\ pc = "score"
    /\ result' = [op |-> "analyze_grain_quality",
                  out |-> Return(analyze_grain_quality(locals.grain, 8, DefaultChecks))]
    /\ pc' = "scored"
    /\ UNCHANGED <<audio, analyzer, librosa, history, locals>>

NextQuality == ScoreGrain

SpecQuality == InitQuality /\ [][NextQuality]_vars

\* the penalty factor of each check, 1 when the check is not violated
SilenceFactor(g) == IF RmsBelow(g, 1, 2) THEN <<1, 10>> ELSE IF RmsBelow(g, 1, 1) THEN <<3, 10>> ELSE <<1, 1>>
BiasFactor(g) == IF MeanAbsAbove(g, 15) THEN <<1, 2>> ELSE IF MeanAbsAbove(g, 8) THEN <<3, 4>> ELSE <<1, 1>>
PeakFactor(g) == IF PeakAbs(g) > 98 THEN <<3, 10>> ELSE IF PeakAbs(g) > 95 THEN <<1, 2>> ELSE <<1, 1>>
CrestFactor(g) == IF CrestAbove(g, 15) THEN <<2, 5>> ELSE IF CrestAbove(g, 10) THEN <<3, 5>> ELSE <<1, 1>>
SkewFactor(g) == IF SkewAbove(g, 85, 100) THEN <<3, 10>> ELSE IF SkewAbove(g, 7, 10) THEN <<3, 5>> ELSE <<1, 1>>

NoCheckViolated(g) ==
    /\ ~RmsBelow(g, 1, 1) /\ ~MeanAbsAbove(g, 8) /\ PeakAbs(g) <= 95
    /\ ~CrestAbove(g, 10) /\ ~SkewAbove(g, 7, 10)

\* C8: the grain score is returned without raising and lies in [0, 1]; a grain
\* shorter than 2 samples scores exactly 0.1; otherwise the score is the
\* product of the penalty factors of the violated checks (silence, bias,
\* near-clipping peak, extreme peak/energy ratio, envelope skew), so a grain
\* violating no check scores exactly 1.0.
C8_QualityScore ==
    result.op = "analyze_grain_quality" =>
      /\ result.out.kind = "return"
      /\ 0 <= result.out.value[1] /\ result.out.value[1] <= result.out.value[2]
      /\ Len(locals.grain) < 2 => result.out.value = <<1, 10>>
      /\ Len(locals.grain) >= 2 =>
           /\ result.out.value =
                Frac(SilenceFactor(locals.grain)[1] * BiasFactor(locals.grain)[1]
                       * PeakFactor(locals.grain)[1] * CrestFactor(locals.grain)[1]
                       * SkewFactor(locals.grain)[1],
                     SilenceFactor(locals.grain)[2] * BiasFactor(locals.grain)[2]
                       * PeakFactor(locals.grain)[2] * CrestFactor(locals.grain)[2]
                       * SkewFactor(locals.grain)[2])
           /\ NoCheckViolated(locals.grain) => result.out.value = <<1, 1>>

\* a grain that violates the peak, crest and skew checks at once was scored,
\* and so was a grain that violates none
C8_Witness ==
    /\ result.op = "analyze_grain_quality"
    /\ Len(locals.grain) > 10
    /\ \/ /\ PeakFactor(locals.grain) # <<1, 1>>
          /\ SkewFactor(locals.grain) # <<1, 1>>
          /\ BiasFactor(locals.grain) # <<1, 1>>
          /\ result.out.value = FracMul(FracMul(PeakFactor(locals.grain), SkewFactor(locals.grain)),
                                        BiasFactor(locals.grain))
       \/ /\ CrestFactor(locals.grain) = <<2, 5>>
          /\ result.out.value[1] < result.out.value[2]

\* ----------------------------------- dsp_utils.time_domain_crossfade_loop
MaxLoopLen == 10

LoopBuffers == UNION {[1..n -> Amps] : n \in 0..MaxLoopLen}

CrossfadeMs == {-125, 0, 250, 2000}

\* int(x) of a quotient a / b with b > 0: truncation towards zero
TruncDiv(a, b) == IF a >= 0 THEN a \div b ELSE -((-a) \div b)

\* x - np.mean(x), scaled by len(x) to stay in the integers
Centered(s) == [i \in 1..Len(s) |-> Len(s) * s[i] - SumSeq(s)]

\* one lag of signal.correlate(search_region, ref, mode='valid')
CorrAt(region, ref, o) == SumSeq([j \in 1..Len(ref) |-> region[o + j] * ref[j]])

correlate_valid(region, ref) ==
    [o \in 1..(Len(region) - Len(ref) + 1) |-> CorrAt(region, ref, o - 1)]

\* np.argmax(corr): the first index holding the maximum
FirstArgMax(corr) ==
    (CHOOSE i \in 1..Len(corr) :
        /\ \A j \in 1..Len(corr) : corr[j] <= corr[i]
        /\ \A j \in 1..(i - 1) : corr[j] < corr[i]) - 1

\* len(corr) - 1 - np.argmax(corr[::-1]): the last index holding the maximum
LastArgMax(corr) ==
    (CHOOSE i \in 1..Len(corr) :
        /\ \A j \in 1..Len(corr) : corr[j] <= corr[i]
        /\ \A j \in (i + 1)..Len(corr) : corr[j] < corr[i]) - 1

fblt_corr(buf, fade_length, window) ==
    correlate_valid(Centered(Slice(buf, Len(buf) - window, Len(buf))),
                    Centered(Slice(buf, 0, fade_length)))

\* find_best_loop_trim without the quarter-length cap
find_best_loop_trim_uncapped(buf, fade_length, search_window) ==
    IF Min(IF search_window = None THEN 4 * fade_length ELSE search_window[1], Len(buf))
         < fade_length
    THEN {Return(0)}
    ELSE IF fade_length = 0 THEN {Raise("ValueError"), Return(0)}
    ELSE {Return(Max(0,
            Min(IF search_window = None THEN 4 * fade_length ELSE search_window[1], Len(buf))
            - (LastArgMax(fblt_corr(buf, fade_length,
                 Min(IF search_window = None THEN 4 * fade_length ELSE search_window[1],
                     Len(buf))))
               + fade_length)))}

\* find_best_loop_trim(audio, fade_length, search_window), as the set of its
\* possible outcomes.  With an empty reference (fade_length 0) the call to
\* signal.correlate has an empty operand, which the library either rejects
\* with ValueError or answers with an empty array (then 0 is returned).
find_best_loop_trim(buf, fade_length, search_window) ==
    IF Min(IF search_window = None THEN 4 * fade_length ELSE search_window[1], Len(buf))
         < fade_length
    THEN {Return(0)}
    ELSE IF fade_length = 0 THEN {Raise("ValueError"), Return(0)}
    ELSE {Return(Min(Max(0,
            Min(IF search_window = None THEN 4 * fade_length ELSE search_window[1], Len(buf))
            - (LastArgMax(fblt_corr(buf, fade_length,
                 Min(IF search_window = None THEN 4 * fade_length ELSE search_window[1],
                     Len(buf))))
               + fade_length)),
            Len(buf) \div 4))}

\* np.linspace(0, 1, n)[k] as a fraction
Linspace01(n, k) == IF n = 1 THEN <<0, 1>> ELSE <<k, n - 1>>

\* the gain of a fade curve at t: sqrt(t) when equal_power, t otherwise
FadeIn(equal_power, n, k) ==
    [curve |-> IF equal_power THEN "sqrt" ELSE "linear", t |-> Linspace01(n, k)]

FadeOut(equal_power, n, k) ==
    [curve |-> IF equal_power THEN "sqrt" ELSE "linear",
     t |-> <<Linspace01(n, k)[2] - Linspace01(n, k)[1], Linspace01(n, k)[2]>>]

\* audio.copy(): every sample as it was
Unfaded(buf) ==
    [i \in 1..Len(buf) |->
        [value |-> buf[i], fade_in |-> None, fade_out |-> None, added |-> None]]

\* sample i (0-based) of audio_out after lines 571-576
FadedSample(a, cf, equal_power, i) ==
    [value |-> a[i + 1],
     fade_out |-> IF i >= Len(a) - cf
                  THEN Some(FadeOut(equal_power, cf, i - (Len(a) - cf))) ELSE None,
     fade_in |-> IF i < cf THEN Some(FadeIn(equal_power, cf, i)) ELSE None,
     added |-> IF i < cf
               THEN Some([value |-> a[Len(a) - cf + i + 1],
                          fade_out |-> FadeOut(equal_power, cf, i)])
               ELSE None]

\* lines 558-578: with no fade samples the in-place product of a non-empty
\* slice and an empty curve cannot broadcast
tdcl_fade(a, cf, equal_power) ==
    IF cf = 0
    THEN IF Len(a) = 0 THEN {Return(<<>>)} ELSE {Raise("ValueError")}
    ELSE {Return([i \in 1..Len(a) |-> FadedSample(a, cf, equal_power, i - 1)])}

\* lines 555-556: audio = audio[:-trim] if trim > 0
tdcl_after_trim(buf, cf, equal_power, t) ==
    IF t.kind = "raise" THEN {t}
    ELSE tdcl_fade(IF t.value > 0 THEN Slice(buf, 0, Len(buf) - t.value) ELSE buf,
                   cf, equal_power)

tdcl_align(buf, cf, rate, optimize_loop, equal_power) ==
    IF optimize_loop
    THEN UNION {tdcl_after_trim(buf, cf, equal_power, t) :
                  t \in find_best_loop_trim(buf, cf,
                          Some(Min(Len(buf) \div 2, Max(cf * 4, TruncDiv(rate, 2)))))}
    ELSE tdcl_fade(buf, cf, equal_power)

\* a crossfade clamped to the whole length of the audio instead of half of it
time_domain_crossfade_loop_clamp_to_length(buf, crossfade_ms, rate, optimize_loop, equal_power) ==
    IF TruncDiv(crossfade_ms * rate, 1000) < 1 THEN {Return(Unfaded(buf))}
    ELSE tdcl_align(buf, Min(TruncDiv(crossfade_ms * rate, 1000), Len(buf)),
                    rate, optimize_loop, equal_power)

\* time_domain_crossfade_loop(audio, crossfade_ms, sr, optimize_loop, equal_power),
\* as the set of its possible outcomes
time_domain_crossfade_loop(buf, crossfade_ms, rate, optimize_loop, equal_power) ==
    IF TruncDiv(crossfade_ms * rate, 1000) < 1 THEN {Return(Unfaded(buf))}
    ELSE tdcl_align(buf, Min(TruncDiv(crossfade_ms * rate, 1000), Len(buf) \div 2),
                    rate, optimize_loop, equal_power)

InitLoop ==
    /\ audio \in LoopBuffers
    /\ analyzer = None
    /\ librosa = None
    /\ result = [op |-> "none"]
    /\ history = NoHistory
    /\ locals \in [crossfade_ms : CrossfadeMs, sr : {8},
                   optimize_loop : BOOLEAN, equal_power : BOOLEAN]
    /\ pc = "loop"

\* out = time_domain_crossfade_loop(audio, crossfade_ms, sr, optimize_loop, equal_power)
MakeLoopable ==
    /\ pc = "loop"
    /\ \E out \in time_domain_crossfade_loop(audio, locals.crossfade_ms, locals.sr,
                                             locals.optimize_loop, locals.equal_power) :
          result' = [op |-> "time_domain_crossfade_loop", out |-> out]
    /\ pc' = "looped"
    /\ UNCHANGED <<audio, analyzer, librosa, history, locals>>

NextLoop == MakeLoopable

SpecLoop == InitLoop /\ [][NextLoop]_vars

AboveIdeal(level) == level[1] * 10000 >= 398107 * level[2]

RmsDistLess(a, b) ==
    IF a[2] = 0 \/ b[2] = 0 THEN FALSE
    ELSE IF a[1] = 0 THEN FALSE
    ELSE IF b[1] = 0 THEN TRUE
    ELSE IF AboveIdeal(a) /\ AboveIdeal(b) THEN a[1] * b[2] < b[1] * a[2]
    ELSE IF ~AboveIdeal(a) /\ ~AboveIdeal(b) THEN a[1] * b[2] > b[1] * a[2]
    ELSE a[1] * b[1] * 10 < 15849 * a[2] * b[2]

\* the gates of get_sorted_windows for window i (1-based), lines 377-388
KeepWindow(an, g, i) ==
    /\ DbGE(an.rms_curve[1][i], g.rms_low_db) /\ DbLE(an.rms_curve[1][i], g.rms_high_db)
    /\ DcBelow(an.dc_offset[1][i], g.max_dc_offset)
    /\ CrestBelow(an.crest_factor[1][i], g.max_crest)
    /\ (g.centroid_low_hz # None => an.spectral_centroid[1][i] >= g.centroid_low_hz[1])
    /\ (g.centroid_high_hz # None => an.spectral_centroid[1][i] <= g.centroid_high_hz[1])

\* keep_mask without the fallback to every window
keep_mask_no_fallback(an, g) ==
    [i \in 1..Len(an.rms_curve[1]) |-> KeepWindow(an, g, i)]

\* keep_mask, all True when no window passes (lines 400-402)
keep_mask(an, g) ==
    IF \E i \in 1..Len(an.rms_curve[1]) : KeepWindow(an, g, i)
    THEN [i \in 1..Len(an.rms_curve[1]) |-> KeepWindow(an, g, i)]
    ELSE [i \in 1..Len(an.rms_curve[1]) |-> TRUE]

window_onset_count(an, i) ==
    OnsetsIn(an.onset_frames[1], (i - 1) * an.hop_samples,
             (i - 1) * an.hop_samples + an.window_size_samples)

\* the keys in the other order, np.lexsort((window_onset_counts, window_rms_scores)):
\* the smaller distance, then fewer onsets, then the lower index
SortsBefore_rms_first(an, i, j) ==
    \/ RmsDistLess(an.rms_curve[1][i], an.rms_curve[1][j])
    \/ /\ ~RmsDistLess(an.rms_curve[1][j], an.rms_curve[1][i])
       /\ \/ window_onset_count(an, i) < window_onset_count(an, j)
          \/ /\ window_onset_count(an, i) = window_onset_count(an, j)
             /\ i < j

\* window i sorts before window j in np.lexsort((window_rms_scores, window_onset_counts)):
\* fewer onsets, then the smaller distance, then the lower index (the sort is stable)
SortsBefore(an, i, j) ==
    \/ window_onset_count(an, i) < window_onset_count(an, j)
    \/ /\ window_onset_count(an, i) = window_onset_count(an, j)
       /\ \/ RmsDistLess(an.rms_curve[1][i], an.rms_curve[1][j])
          \/ /\ ~RmsDistLess(an.rms_curve[1][j], an.rms_curve[1][i])
             /\ i < j

\* sorted_indices, as 0-based window indices
lexsort(an) ==
    [k \in 1..Len(an.rms_curve[1]) |->
       (CHOOSE i \in 1..Len(an.rms_curve[1]) :
          Cardinality({j \in 1..Len(an.rms_curve[1]) : SortsBefore(an, j, i)}) = k - 1) - 1]

\* sorted_indices[keep_mask[sorted_indices]]
KeptOf(sorted, keep) ==
    LET kept(w) == keep[w + 1] IN SelectSeq(sorted, kept)

gsw_sort(r, g) ==
    IF ~r.ok THEN [an |-> r.an, out |-> Raise("ValueError")]
    ELSE [an |-> r.an, out |-> Return(KeptOf(lexsort(r.an), keep_mask(r.an, g)))]

gsw_centroid(buf, r, lib, g) ==
    IF ~r.ok THEN [an |-> r.an, out |-> Raise("ValueError")]
    ELSE gsw_sort(IF g.centroid_low_hz # None \/ g.centroid_high_hz # None
                  THEN compute_spectral_centroid(buf, r.an, lib) ELSE r, g)

gsw_crest(buf, r, lib, g) ==
    IF ~r.ok THEN [an |-> r.an, out |-> Raise("ValueError")]
    ELSE gsw_centroid(buf, compute_crest_factor(buf, r.an), lib, g)

gsw_dc(buf, r, lib, g) ==
    IF ~r.ok THEN [an |-> r.an, out |-> Raise("ValueError")]
    ELSE gsw_crest(buf, compute_dc_offset(buf, r.an), lib, g)

\* AudioAnalyzer.get_sorted_windows: the analyzer afterwards and the outcome
get_sorted_windows(buf, an, lib, g) ==
    gsw_dc(buf, compute_rms_curve(buf, compute_onset_density(an, lib)), lib, g)

\* ------------------------------------------ granular_maker.extract_grains
\* signal.windows.hann(length, sym=False) in thousandths, for the grain
\* lengths that occur
hann_window(length) ==
    CASE length = 0 -> <<>>
      [] length = 1 -> <<1000>>
      [] length = 2 -> <<0, 1000>>
      [] length = 3 -> <<0, 750, 750>>
      [] length = 4 -> <<0, 500, 1000, 500>>
      [] length = 5 -> <<0, 345, 905, 905, 345>>
      [] length = 6 -> <<0, 250, 750, 1000, 750, 250>>

\* np.pad(grain, (0, grain_length - len(grain))) when the slice is short
PadTo(slice, grain_length) ==
    [i \in 1..Max(Len(slice), grain_length) |-> IF i <= Len(slice) THEN slice[i] ELSE 0]

\* grain * window: samples in units of 1e-5
Windowed(raw) == [i \in 1..Len(raw) |-> raw[i] * hann_window(Len(raw))[i]]

\* a kept grain: the windowed samples, with the padded slice, the tier that chose
\* its start, and the start
Grain(raw, tier, start) ==
    [samples |-> Windowed(raw), raw |-> raw, tier |-> tier, start |-> start]

\* np.random.randint(low, high): the values it can draw (ValueError when none)
randint(low, high) == low..(high - 1)

\* lines 166-172: the grains the short-buffer loop can append for one draw
short_grain(buf, grain_length) ==
    Grain(PadTo(Slice(buf, 0, grain_length), grain_length), "short", 0)

\* tier (c): start = np.random.randint(0, max(1, max_start - grain_length + 1))
tier_c(max_start, grain_length) ==
    {[start |-> s, grain_length |-> grain_length, tier |-> "c"] :
       s \in randint(0, Max(1, max_start - grain_length + 1))}

\* tier (b) for a chosen window: the grain shrinks to the window, then a random
\* offset inside the window (lines 227-233 and 250-255)
tier_b_window(buf, an, grain_length, window_idx) ==
    {[start |-> Min(get_sample_range_for_window(buf, an, window_idx)[1] + offset,
                    Len(buf) - Min(grain_length,
                                   get_sample_range_for_window(buf, an, window_idx)[2]
                                   - get_sample_range_for_window(buf, an, window_idx)[1])),
      grain_length |-> Min(grain_length,
                           get_sample_range_for_window(buf, an, window_idx)[2]
                           - get_sample_range_for_window(buf, an, window_idx)[1]),
      tier |-> "b"] :
       offset \in randint(0, Max(1,
                    Max(0, get_sample_range_for_window(buf, an, window_idx)[2]
                           - get_sample_range_for_window(buf, an, window_idx)[1]
                           - Min(grain_length,
                                 get_sample_range_for_window(buf, an, window_idx)[2]
                                 - get_sample_range_for_window(buf, an, window_idx)[1])) + 1))}

\* tier (b): a window from the top 20% (at least one) of the sorted windows
tier_b(buf, an, sorted_windows, max_start, grain_length) ==
    IF Len(sorted_windows) > 0
    THEN UNION {tier_b_window(buf, an, grain_length, sorted_windows[k]) :
                  k \in 1..Max(1, Len(sorted_windows) \div 5)}
    ELSE tier_c(max_start, grain_length)

\* tier (a): start of a region sampled from a stable run
tier_a(regions, grain_length) ==
    {[start |-> r[1][1], grain_length |-> grain_length, tier |-> "a"] : r \in regions}

tier_b_from(buf, an, r, max_start, grain_length) ==
    IF r.out.kind = "raise" THEN {[tier |-> "raise"]}
    ELSE tier_b(buf, an, r.out.value, max_start, grain_length)

\* tier (a) when the sampler returns a region, tier (b) when it returns None
tier_a_or_b(buf, an, lib, g, regions, max_start, grain_length) ==
    IF regions # {None} THEN tier_a(regions, grain_length)
    ELSE tier_b_from(buf, an, get_sorted_windows(buf, an, lib, g), max_start, grain_length)

\* an attempt without the soft fallback: a mask with no stable window sends the
\* attempt to a random start
attempt_starts_no_soft_fallback(buf, an, lib, c, use_quality_filter, mask, max_start, grain_length) ==
    IF use_quality_filter /\ mask # None /\ (\E i \in 1..Len(mask[1]) : mask[1][i])
    THEN tier_a_or_b(buf, an[1], lib, c.gates,
                     sample_from_stable_region(buf, an[1], (grain_length * 1000) \div c.sr,
                                               c.min_stable_windows, mask[1]),
                     max_start, grain_length)
    ELSE tier_c(max_start, grain_length)

\* lines 203-259: the starts one attempt can choose, each with the grain length
\* it leaves and the tier that chose it.  an is None or <<analyzer>>, mask is
\* None or <<stable_mask>>.
attempt_starts(buf, an, lib, c, use_quality_filter, mask, max_start, grain_length) ==
    IF use_quality_filter /\ mask # None /\ (\E i \in 1..Len(mask[1]) : mask[1][i])
    THEN tier_a_or_b(buf, an[1], lib, c.gates,
                     sample_from_stable_region(buf, an[1], (grain_length * 1000) \div c.sr,
                                               c.min_stable_windows, mask[1]),
                     max_start, grain_length)
    ELSE IF use_quality_filter /\ an # None
    THEN tier_b_from(buf, an[1], get_sorted_windows(buf, an[1], lib, c.gates),
                     max_start, grain_length)
    ELSE tier_c(max_start, grain_length)

\* lines 261-266: audio[start:end], zero-padded on the right to grain_length
candidate_slice(buf, s) ==
    PadTo(Slice(buf, s.start, Min(s.start + s.grain_length, Len(buf))), s.grain_length)

\* score < min_quality, both exact fractions
ScoreBelow(score, min_quality) == score[1] * min_quality[2] < min_quality[1] * score[2]

\* a quality check that lets every candidate through
rejected_never(raw, rate, use_quality_filter, min_quality) == FALSE

\* line 269: use_quality_filter and analyze_grain_quality(grain, sr) < min_quality
rejected(raw, rate, use_quality_filter, min_quality) ==
    use_quality_filter /\ ScoreBelow(analyze_grain_quality(raw, rate, DefaultChecks), min_quality)

\* a budget of twenty attempts per grain
max_attempts_doubled(num_grains, use_quality_filter) ==
    IF use_quality_filter THEN num_grains * 20 ELSE num_grains

\* the attempt budget of the retry loop (line 194)
max_attempts(num_grains, use_quality_filter) ==
    IF use_quality_filter THEN num_grains * 10 ELSE num_grains

\* ------------------------------------------- granular_maker.create_cloud
\* apply_pitch_shift_grain: the grains it can return.  Resampling by a rate
\* clamped to [0.5, 2] changes the length to between half and twice the
\* original; the resampled content is taken sample-and-hold.
Resampled(grain, n) ==
    [grain EXCEPT !.samples = [i \in 1..n |-> grain.samples[((i - 1) * Len(grain.samples)) \div n + 1]]]

apply_pitch_shift_grain(grain, pitch_shift_min, pitch_shift_max) ==
    IF pitch_shift_min = 0 /\ pitch_shift_max = 0 THEN {grain}
    ELSE IF Len(grain.samples) < 256 THEN {grain}
    ELSE {grain} \cup {Resampled(grain, n) :
                         n \in ((Len(grain.samples) + 1) \div 2)..(2 * Len(grain.samples))}

\* the lists [apply_pitch_shift_grain(g, ...) for g in grains] can be
PitchShifted(grains, pitch_shift_min, pitch_shift_max) ==
    {p \in [1..Len(grains) ->
              UNION {apply_pitch_shift_grain(grains[i], pitch_shift_min, pitch_shift_max) :
                       i \in 1..Len(grains)}] :
       \A i \in 1..Len(grains) :
          p[i] \in apply_pitch_shift_grain(grains[i], pitch_shift_min, pitch_shift_max)}

\* np.random.shuffle(grains): every order of the list
Shuffled(grains) ==
    {[i \in 1..Len(grains) |-> grains[perm[i]]] : perm \in Permutations(1..Len(grains))}

\* hop_samples = max(1, int(grain_length_samples * (1 - overlap_ratio))), the
\* overlap ratio given in quarters
mean_grain_samples(c) == ((c.grain_length_min_ms + c.grain_length_max_ms) * c.sr) \div 2000

hop_samples(c, overlap_quarters) ==
    Max(1, (mean_grain_samples(c) * (4 - overlap_quarters)) \div 4)

\* the placement loop (lines 450-457): iteration k (0-based) puts grain
\* k % len(grains) at k * hop_samples, cut at the end of the cloud
Placements(grains, hop, cloud_samples) ==
    [k \in 1..((cloud_samples + hop - 1) \div hop) |->
       [pos |-> (k - 1) * hop,
        grain_idx |-> (k - 1) % Len(grains),
        len |-> Min((k - 1) * hop + Len(grains[((k - 1) % Len(grains)) + 1].samples),
                    cloud_samples) - (k - 1) * hop]]

\* cloud[i] after the loop: the sum of the grain samples placed over index i
CloudAt(grains, placed, i) ==
    SumSeq([k \in 1..Len(placed) |->
              IF placed[k].pos <= i /\ i < placed[k].pos + placed[k].len
              THEN grains[placed[k].grain_idx + 1].samples[i - placed[k].pos + 1]
              ELSE 0])

\* a cloud buffer as long as the grains of the pool laid end to end
PlacedCloud_pool_sized(grains, placed, cloud_samples) ==
    [i \in 1..SumSeq([k \in 1..Len(grains) |-> Len(grains[k].samples)]) |->
       CloudAt(grains, placed, i - 1)]

PlacedCloud(grains, placed, cloud_samples) ==
    [i \in 1..cloud_samples |-> CloudAt(grains, placed, i - 1)]

\* np.linspace(1, 0, n)[k]
Linspace10(n, k) == IF n = 1 THEN <<1, 1>> ELSE <<n - 1 - k, n - 1>>

\* lines 459-468 for sample i (0-based): cloud / peak * 0.95 when peak > 0,
\* then the gains of apply_fade_in and apply_fade_out
FinishedSample(cloud, peak, fade_samples, i) ==
    [value |-> IF peak > 0 THEN <<cloud[i + 1] * 95, peak * 100>> ELSE <<cloud[i + 1], 1>>,
     fade_in |-> IF i < fade_samples THEN Some(Linspace01(fade_samples, i)) ELSE None,
     fade_out |-> IF i >= Len(cloud) - fade_samples
                  THEN Some(Linspace10(fade_samples, i - (Len(cloud) - fade_samples)))
                  ELSE None]

\* np.max of an empty cloud raises; so does apply_fade_out with fade_length 0
\* on a non-empty cloud (audio_out[-0:] is the whole array, the curve is empty)
finish_cloud(cloud, fade_samples) ==
    IF Len(cloud) = 0 THEN Raise("ValueError")
    ELSE IF fade_samples = 0 THEN Raise("ValueError")
    ELSE Return([i \in 1..Len(cloud) |->
                   FinishedSample(cloud, PeakAbs(cloud), fade_samples, i - 1)])

\* lines 436-470 for a shuffled pool: grains[grain_idx % len(grains)] fails on
\* an empty pool as soon as the loop runs
place_and_finish(pool, c, cloud_samples, overlap_quarters) ==
    IF cloud_samples > 0 /\ Len(pool) = 0
    THEN [op |-> "create_cloud", out |-> Raise("ZeroDivisionError"), pool |-> pool,
          placed |-> <<>>, cloud_samples |-> cloud_samples]
    ELSE [op |-> "create_cloud",
          out |-> finish_cloud(
                    PlacedCloud(pool,
                                Placements(pool, hop_samples(c, overlap_quarters), cloud_samples),
                                cloud_samples),
                    Min(c.sr \div 100, cloud_samples \div 4)),
          pool |-> pool,
          placed |-> Placements(pool, hop_samples(c, overlap_quarters), cloud_samples),
          cloud_samples |-> cloud_samples]

\* ------------------------------------------------- clouds: specification
\* Sources at 100 Hz (10 ms per sample): one no longer than the longest grain,
\* a silent one, and a longer one that starts with two sounding samples.
CloudBuffers ==
    {<<0, 20, 20>>,
     <<0, 0, 0, 0, 0, 0>>,
     <<20, 20, 0, 0, 0, 0>>}

\* pre_analysis: disabled, or enabled with a window of one or two samples and
\* a hop of one sample or none, under the default gates or a loose bias gate
PreAnalysisChoices ==
    {[enabled |-> FALSE, analysis_window_sec |-> 1000, analysis_hop_sec |-> 500,
      gates |-> DefaultGates]}
    \cup {[enabled |-> TRUE, analysis_window_sec |-> w[1], analysis_hop_sec |-> w[2],
           gates |-> g] :
            w \in {<<10, 10>>, <<20, 10>>, <<20, 0>>},
            g \in {DefaultGates, [DefaultGates EXCEPT !.max_dc_offset = 30]}}

\* grain_length_min_ms and grain_length_max_ms: 3..4 and 1..5 samples
GrainRanges == {<<30, 40>>, <<10, 50>>}

NumGrains == {1, 2}

\* cloud_duration_sec in ms: 2 and 5 samples
CloudDurations == {20, 50}

\* overlap_ratio in quarters with a pitch range in semitones
PlacementChoices ==
    {[overlap_quarters |-> 1, pitch_shift_min |-> 0, pitch_shift_max |-> 0],
     [overlap_quarters |-> 2, pitch_shift_min |-> -12, pitch_shift_max |-> 12]}

\* The arguments of create_cloud that every step of the extraction reads; the
\* cloud duration, the overlap and the pitch range are read from line 427 on
\* only, and are drawn there.
CloudConfigs ==
    {[sr |-> 100,
      pre_analysis |-> pre,
      gates |-> pre.gates,
      min_stable_windows |-> 2,
      grain_quality_threshold |-> <<2, 5>>,
      grain_length_min_ms |-> range[1],
      grain_length_max_ms |-> range[2],
      num_grains |-> n] :
       pre \in PreAnalysisChoices, range \in GrainRanges, n \in NumGrains}

\* what librosa computes for the source: nothing, or an onset at the first sample
CloudLibrosa(c) ==
    IF c.pre_analysis.enabled
    THEN {[stft_ok |-> FALSE, onsets |-> {}, bright_from |-> 0],
          [stft_ok |-> TRUE, onsets |-> {0}, bright_from |-> 1]}
    ELSE {[stft_ok |-> FALSE, onsets |-> {}, bright_from |-> 0]}

grain_length_min_samples(c) == TruncDiv(c.grain_length_min_ms * c.sr, 1000)
grain_length_max_samples(c) == TruncDiv(c.grain_length_max_ms * c.sr, 1000)

\* max_start = max(0, len(audio) - grain_length_max_samples)
max_start_of(buf, c) == Max(0, Len(buf) - grain_length_max_samples(c))

InitGrains ==
    /\ audio \in CloudBuffers
    /\ analyzer = None
    /\ result = [op |-> "none"]
    /\ history = NoHistory
    /\ locals \in [c : CloudConfigs, pass : {0}, use_quality_filter : {TRUE},
                   with_analyzer : {FALSE}, stable_mask : {None}, attempts : {0},
                   grains : {<<>>}]
    /\ librosa \in CloudLibrosa(locals.c)
    /\ pc = "cloud"

\* an exception leaves create_cloud
CloudFailed(exc) ==
    /\ result' = [op |-> "create_cloud", out |-> Raise(exc), pool |-> <<>>, placed |-> <<>>,
                  cloud_samples |-> 0]
    /\ pc' = "done"
    /\ locals' = locals

\* extract_grains reaches one of its loops with an empty list of grains
StartLoop(pass, use_quality_filter, an, with_analyzer, mask, loop) ==
    /\ analyzer' = an
    /\ locals' = [locals EXCEPT !.pass = pass, !.use_quality_filter = use_quality_filter,
                                !.with_analyzer = with_analyzer, !.stable_mask = mask,
                                !.attempts = 0, !.grains = <<>>]
    /\ pc' = loop
    /\ result' = result

\* lines 176-186: stable_mask = analyzer.get_stable_regions(...)
MaskComputed(pass, use_quality_filter, r) ==
    IF r.out.kind = "raise"
    THEN analyzer' = Some(r.an) /\ CloudFailed(r.out.exc)
    ELSE StartLoop(pass, use_quality_filter, Some(r.an), TRUE, Some(r.out.value), "attempt")

\* extract_grains up to its loop (lines 155-194)
EnterExtract(pass, use_quality_filter, an, with_analyzer) ==
    IF max_start_of(audio, locals.c) = 0
    THEN StartLoop(pass, use_quality_filter, an, with_analyzer, None, "short")
    ELSE IF use_quality_filter /\ with_analyzer
    THEN MaskComputed(pass, use_quality_filter,
                      get_stable_regions(audio, an[1], librosa, locals.c.gates))
    ELSE StartLoop(pass, use_quality_filter, an, with_analyzer, None, "attempt")

AnalyzerBuilt(r) ==
    IF r.kind = "raise" THEN analyzer' = None /\ CloudFailed(r.exc)
    ELSE EnterExtract(1, TRUE, Some(r.value), TRUE)

\* create_cloud up to the first extraction loop (lines 362-413)
BeginCloud ==
    /\ pc = "cloud"
    /\ IF locals.c.pre_analysis.enabled
       THEN AnalyzerBuilt(AudioAnalyzer__init__(audio, locals.c.sr,
                                                locals.c.pre_analysis.analysis_window_sec,
                                                locals.c.pre_analysis.analysis_hop_sec))
       ELSE EnterExtract(1, TRUE, None, FALSE)
    /\ UNCHANGED <<audio, librosa, history>>

\* one iteration of the short-buffer loop (lines 165-172)
ExtractShort ==
    /\ pc = "short"
    /\ Len(locals.grains) < locals.c.num_grains
    /\ \E grain_length \in randint(grain_length_min_samples(locals.c),
                                   grain_length_max_samples(locals.c) + 1) :
         locals' = [locals EXCEPT !.grains = Append(@, short_grain(audio, grain_length))]
    /\ UNCHANGED <<audio, analyzer, librosa, result, history, pc>>

\* the rest of an attempt once its start s is chosen (lines 261-275)
Attempted(s) ==
    IF s.tier = "raise" THEN CloudFailed("ValueError")
    ELSE /\ locals' = [locals EXCEPT
                         !.attempts = @ + 1,
                         !.grains = IF rejected(candidate_slice(audio, s), locals.c.sr,
                                                locals.use_quality_filter,
                                                locals.c.grain_quality_threshold)
                                    THEN @
                                    ELSE Append(@, Grain(candidate_slice(audio, s), s.tier,
                                                         s.start))]
         /\ UNCHANGED <<result, pc>>

\* one iteration of the retry loop (lines 196-275)
ExtractAttempt ==
    /\ pc = "attempt"
    /\ Len(locals.grains) < locals.c.num_grains
    /\ locals.attempts < max_attempts(locals.c.num_grains, locals.use_quality_filter)
    /\ \E grain_length \in randint(grain_length_min_samples(locals.c),
                                   grain_length_max_samples(locals.c) + 1) :
         \E s \in attempt_starts(audio, IF locals.with_analyzer THEN analyzer ELSE None,
                                 librosa, locals.c, locals.use_quality_filter,
                                 locals.stable_mask, max_start_of(audio, locals.c),
                                 grain_length) :
            /\ Attempted(s)
            /\ analyzer' = IF s.tier \in {"b", "raise"}
                           THEN Some(get_sorted_windows(audio, analyzer[1], librosa,
                                                        locals.c.gates).an)
                           ELSE analyzer
    /\ UNCHANGED <<audio, librosa, history>>

\* a create_cloud that never retries the extraction
after_extract_no_retry(grains, pass) == "place"

\* lines 415-425: "if not grains" after the first extraction leads to the second
after_extract(grains, pass) ==
    IF Len(grains) = 0 /\ pass = 1 THEN "fallback" ELSE "place"

\* the loop condition of whichever loop extract_grains is in
LoopOver ==
    \/ pc = "short" /\ Len(locals.grains) >= locals.c.num_grains
    \/ /\ pc = "attempt"
       /\ \/ Len(locals.grains) >= locals.c.num_grains
          \/ locals.attempts >= max_attempts(locals.c.num_grains, locals.use_quality_filter)

\* extract_grains returns: create_cloud extracts again without the filter and
\* without the analyzer, or goes on to place the grains
EndExtract ==
    /\ LoopOver
    /\ IF after_extract(locals.grains, locals.pass) = "fallback"
       THEN EnterExtract(2, FALSE, analyzer, FALSE)
       ELSE pc' = "place" /\ UNCHANGED <<analyzer, locals, result>>
    /\ UNCHANGED <<audio, librosa, history>>

\* pitch shifts, shuffle, placement, normalisation and fades (lines 427-470)
Synthesize ==
    /\ pc = "place"
    /\ \E d \in CloudDurations, pl \in PlacementChoices :
         \E shifted \in PitchShifted(locals.grains, pl.pitch_shift_min, pl.pitch_shift_max) :
            \E pool \in Shuffled(shifted) :
               result' = place_and_finish(pool, locals.c, SecToSamples(d, locals.c.sr),
                                          pl.overlap_quarters)
    /\ pc' = "done"
    /\ UNCHANGED <<audio, analyzer, librosa, history, locals>>

NextGrains == BeginCloud \/ ExtractShort \/ ExtractAttempt \/ EndExtract \/ Synthesize

SpecGrains == InitGrains /\ [][NextGrains]_vars

\* C4 (as stated): for a source at least as long as the longest grain, every
\* grain extract_grains has kept is at least grain_length_min_samples long,
\* whichever tier chose its start.
C4_MinGrainLength ==
    (pc \in {"short", "attempt", "place", "done"}
       /\ Len(audio) >= grain_length_max_samples(locals.c))
    => \A i \in 1..Len(locals.grains) :
          Len(locals.grains[i].samples) >= grain_length_min_samples(locals.c)

\* C9: when the first extraction keeps no grain, create_cloud extracts again
\* with the quality filter off and no analyzer; so for num_grains >= 1 the
\* pool is never empty when the grains are placed, and the placement never
\* fails on an empty pool.
C9_PoolNeverEmpty ==
    /\ locals.pass = 2 => ~locals.use_quality_filter /\ ~locals.with_analyzer
    /\ (pc = "place" /\ locals.c.num_grains >= 1) => Len(locals.grains) >= 1
    /\ (result.op = "create_cloud" /\ locals.c.num_grains >= 1)
         => result.out # Raise("ZeroDivisionError")

\* a cloud was placed from the grains of the second extraction
C9_Witness ==
    /\ pc = "done"
    /\ locals.pass = 2
    /\ locals.c.num_grains >= 1
    /\ Len(result.pool) >= 1
    /\ Len(result.placed) >= 1

\* C10 (as stated): in the cloud create_cloud returns, every index lies under
\* at least one placed grain, whatever the overlap ratio and the pool.
C10_FullyCovered ==
    (result.op = "create_cloud" /\ result.out.kind = "return")
    => \A i \in 0..(result.cloud_samples - 1) :
          \E k \in 1..Len(result.placed) :
             result.placed[k].pos <= i /\ i < result.placed[k].pos + result.placed[k].len

\* pre_analysis settings the analyzer can work with: a window and a hop of at
\* least one sample (validate_config requires both to be positive)
ValidPreAnalysis(c) ==
    c.pre_analysis.enabled
    => SecToSamples(c.pre_analysis.analysis_window_sec, c.sr) > 0
       /\ SecToSamples(c.pre_analysis.analysis_hop_sec, c.sr) > 0

\* the fades of lines 465-468 are at least one sample long
FadeFits(cloud_samples, rate) == Min(rate \div 100, cloud_samples \div 4) >= 1

NonSilent(buf) == \E i \in 1..Len(buf) : buf[i] # 0

\* a finished sample that is not zero: a non-zero value under non-zero gains
SampleNonZero(s) ==
    /\ s.value[1] # 0
    /\ s.fade_in # None => s.fade_in[1][1] # 0
    /\ s.fade_out # None => s.fade_out[1][1] # 0

\* C12 (as stated): for every cloud of at least one sample, create_cloud on a
\* non-silent source returns a non-empty cloud with a non-zero peak.
C12_ShortCloud ==
    (pc = "done" /\ result.op = "create_cloud" /\ result.cloud_samples >= 1
       /\ NonSilent(audio))
    => /\ result.out.kind = "return"
       /\ Len(result.out.value) >= 1
       /\ \E i \in 1..Len(result.out.value) : SampleNonZero(result.out.value[i])

\* ------------------------------------------------- batch pipelines
\* process_cloud_sources / make_clouds_from_source and mine_all_pads /
\* mine_pads_from_file.  A track is a source file: whether librosa can load
\* it, and the audio of each item (a cloud after create_cloud and filtering, a
\* pad after extract_top_pads and the loop crossfade) as it reaches
\* normalize_audio, in billionths of full scale.
MaxTracks == 2
MaxItems == 2

\* a silent item and a sounding one
ItemAudio == {<<0>>, <<250000000>>}
ItemLists == UNION {[1..n -> ItemAudio] : n \in 0..MaxItems}
Tracks ==
    {[load |-> "corrupt", items |-> <<>>]}
    \cup {[load |-> "ok", items |-> items] : items \in ItemLists}
TrackLists == UNION {[1..n -> Tracks] : n \in 0..MaxTracks}

\* io_utils.load_audio: raises AudioError for a file librosa cannot load or
\* loads empty; no path returns (None, None)
load_audio(track) ==
    IF track.load = "ok" THEN Return(Some(track.items)) ELSE Raise("AudioError")

\* a batch over files; clouds_per_source is the same for every source
InitBatch ==
    /\ audio = <<>>
    /\ analyzer = None
    /\ librosa = None
    /\ result = [op |-> "none"]
    /\ history = NoHistory
    /\ locals \in [pipeline : {"clouds", "pads"}, files : TrackLists,
                   peak_dbfs : {-20, 0}, idx : {1}, item : {1}, current : {<<>>},
                   results : {<<>>}]
    /\ locals.pipeline = "clouds"
         => \A i, j \in 1..Len(locals.files) :
               (locals.files[i].load = "ok" /\ locals.files[j].load = "ok")
               => Len(locals.files[i].items) = Len(locals.files[j].items)
    /\ pc = "discover"

\* an exception leaves the pipeline: nothing in either pipeline catches it
BatchFailed(exc) ==
    /\ result' = [op |-> locals.pipeline, out |-> Raise(exc)]
    /\ pc' = "done"
    /\ locals' = locals

\* "if not files: return {}" (granular_maker 605-607, segment_miner 285-287)
Discover ==
    /\ pc = "discover"
    /\ IF Len(locals.files) = 0
       THEN result' = [op |-> locals.pipeline, out |-> Return(<<>>)] /\ pc' = "done"
       ELSE result' = result /\ pc' = "load"
    /\ UNCHANGED <<audio, analyzer, librosa, history, locals>>

\* the next file is loaded; "if audio is None" skips it
TrackLoaded(r) ==
    IF r.kind = "raise" THEN BatchFailed(r.exc)
    ELSE IF r.value = None
    THEN /\ locals' = [locals EXCEPT !.idx = @ + 1]
         /\ UNCHANGED <<result, pc>>
    ELSE /\ locals' = [locals EXCEPT !.item = 1, !.current = <<>>]
         /\ pc' = "item"
         /\ result' = result

LoadTrack ==
    /\ pc = "load"
    /\ locals.idx <= Len(locals.files)
    /\ TrackLoaded(load_audio(locals.files[locals.idx]))
    /\ UNCHANGED <<audio, analyzer, librosa, history>>

\* one iteration of the item loop: normalize_audio(item, peak_dbfs), append
ItemNormalized(r) ==
    IF r.kind = "raise" THEN BatchFailed(r.exc)
    ELSE /\ locals' = [locals EXCEPT !.item = @ + 1, !.current = Append(@, r.value)]
         /\ UNCHANGED <<result, pc>>

NormalizeItem ==
    /\ pc = "item"
    /\ locals.item <= Len(locals.files[locals.idx].items)
    /\ ItemNormalized(normalize_audio(locals.files[locals.idx].items[locals.item],
                                      locals.peak_dbfs))
    /\ UNCHANGED <<audio, analyzer, librosa, history>>

\* the items of the file are stored under its stem: always for clouds, "if
\* pads" for pads
StoreTrack ==
    /\ pc = "item"
    /\ locals.item > Len(locals.files[locals.idx].items)
    /\ locals' = [locals EXCEPT
                    !.idx = @ + 1,
                    !.results = IF locals.pipeline = "pads" /\ locals.current = <<>>
                                THEN @
                                ELSE Append(@, [stem |-> locals.idx,
                                                items |-> locals.current])]
    /\ pc' = "load"
    /\ UNCHANGED <<audio, analyzer, librosa, result, history>>

\* "return results" after the last file
ReturnResults ==
    /\ pc = "load"
    /\ locals.idx > Len(locals.files)
    /\ result' = [op |-> locals.pipeline, out |-> Return(locals.results)]
    /\ pc' = "done"
    /\ UNCHANGED <<audio, analyzer, librosa, history, locals>>

NextBatch == Discover \/ LoadTrack \/ NormalizeItem \/ StoreTrack \/ ReturnResults

SpecBatch == InitBatch /\ [][NextBatch]_vars

\* the items of a track normalize_audio accepts
Sounding(items) == SelectSeq(items, LAMBDA a : PeakAbs(a) >= 10)

\* the indices 1..n a predicate keeps, in order
KeptIndices(n, Keep(_)) == SelectSeq([i \in 1..n |-> i], Keep)

\* C13 (as stated): a silent item is skipped and nothing else: when every
\* file loads, the pipeline returns, and each stored track holds exactly its
\* sounding items.
C13_SilentSkipped ==
    (pc = "done" /\ \A i \in 1..Len(locals.files) : locals.files[i].load = "ok")
    => /\ result.out.kind = "return"
       /\ \A k \in 1..Len(result.out.value) :
             Len(result.out.value[k].items)
               = Len(Sounding(locals.files[result.out.value[k].stem].items))

\* a track with something to store: it loads, and for pads it has an item
Storable(files, pipeline, i) ==
    files[i].load = "ok" /\ (pipeline = "pads" => Len(files[i].items) >= 1)

\* C14 (as stated): when no item is silent, the pipeline returns whatever
\* the files are, and the result holds the tracks that load (and have a pad),
\* in the order of the list; tracks that do not load are skipped.
C14_BatchCompletes ==
    (pc = "done" /\ \A i \in 1..Len(locals.files) :
                       Sounding(locals.files[i].items) = locals.files[i].items)
    => /\ result.out.kind = "return"
       /\ [k \in 1..Len(result.out.value) |-> result.out.value[k].stem]
            = KeptIndices(Len(locals.files),
                          LAMBDA i : Storable(locals.files, locals.pipeline, i))

\* ------------------------------------------------- seeded runs
\* numpy's global generator: its next output is a function of its state, and
\* np.random.seed(seed) sets the state from the seed alone.  A full-period
\* congruential generator on 32 states stands for it.
rng_next(rng) == (5 * rng + 3) % 32

\* a set_random_seed that leaves the generator as it is
np_random_seed_unseeded(rng, seed) == rng

\* set_random_seed(seed): np.random.seed(seed) unless seed is None
np_random_seed(rng, seed) == IF seed = None THEN rng ELSE seed[1] % 32

\* np.random.randint(low, high) on the generator in state rng
randint_seeded(rng, low, high) == low + ((rng_next(rng) \div 2) % (high - low))

\* apply_pitch_shift_grain on the generator: np.random.uniform is drawn only
\* past the two early returns; the draw fixes the resampled length
pitch_shift_seeded(grain, rng, pitch_shift_min, pitch_shift_max) ==
    IF (pitch_shift_min = 0 /\ pitch_shift_max = 0) \/ Len(grain.samples) < 256
    THEN [grain |-> grain, rng |-> rng]
    ELSE [grain |-> Resampled(grain, randint_seeded(rng, (Len(grain.samples) + 1) \div 2,
                                                    2 * Len(grain.samples) + 1)),
          rng |-> rng_next(rng)]

\* [apply_pitch_shift_grain(g, ...) for g in grains], from grain k on
RECURSIVE pitch_shifts_seeded(_, _, _, _, _)
pitch_shifts_seeded(grains, k, rng, pitch_shift_min, pitch_shift_max) ==
    IF k > Len(grains) THEN [grains |-> grains, rng |-> rng]
    ELSE pitch_shifts_seeded(
           [grains EXCEPT ![k] = pitch_shift_seeded(grains[k], rng, pitch_shift_min,
                                                    pitch_shift_max).grain],
           k + 1,
           pitch_shift_seeded(grains[k], rng, pitch_shift_min, pitch_shift_max).rng,
           pitch_shift_min, pitch_shift_max)

Swapped(list, i, j) == [list EXCEPT ![i] = list[j], ![j] = list[i]]

\* np.random.shuffle(grains): for i = n-1 down to 1, swap x[i] with x[j], j
\* drawn from 0..i (i is 0-based)
RECURSIVE shuffle_seeded(_, _, _)
shuffle_seeded(grains, i, rng) ==
    IF i < 1 THEN [grains |-> grains, rng |-> rng]
    ELSE shuffle_seeded(Swapped(grains, i + 1, randint_seeded(rng, 0, i + 1) + 1),
                        i - 1, rng_next(rng))

SeedChoices == {None, Some(0), Some(5)}

\* the state the generator is in before the first run
EntropyStates == {0, 7, 12}

\* two runs of create_cloud on the same source with the same arguments (no
\* pre-analysis), each after set_random_seed(seed)
InitSeeded ==
    /\ audio \in CloudBuffers
    /\ analyzer = None
    /\ librosa = None
    /\ result = [op |-> "none"]
    /\ history = NoHistory
    /\ locals \in [c : {c \in CloudConfigs : ~c.pre_analysis.enabled},
                   seed : SeedChoices, rng : EntropyStates, run : {1},
                   cloud_duration_sec : CloudDurations, placement : PlacementChoices,
                   pass : {1}, use_quality_filter : {TRUE}, attempts : {0},
                   grains : {<<>>}, draws : {<<>>}, first : {None}]
    /\ pc = "seed"

\* set_random_seed(seed), then create_cloud up to the first extraction loop
SetRandomSeed ==
    /\ pc = "seed"
    /\ locals' = [locals EXCEPT !.rng = np_random_seed(@, locals.seed),
                                !.pass = 1, !.use_quality_filter = TRUE,
                                !.attempts = 0, !.grains = <<>>, !.draws = <<>>]
    /\ pc' = "extract"
    /\ UNCHANGED <<audio, analyzer, librosa, result, history>>

\* one iteration of the short-buffer loop: the grain length is drawn
SeededShort(grain_length) ==
    locals' = [locals EXCEPT !.rng = rng_next(@),
                             !.draws = Append(@, grain_length),
                             !.grains = Append(@, short_grain(audio, grain_length))]

\* one iteration of the retry loop: the grain length, then the start
SeededStart(grain_length, s) ==
    locals' = [locals EXCEPT
                 !.rng = rng_next(rng_next(@)),
                 !.draws = Append(Append(@, grain_length), s.start),
                 !.attempts = @ + 1,
                 !.grains = IF rejected(candidate_slice(audio, s), locals.c.sr,
                                        locals.use_quality_filter,
                                        locals.c.grain_quality_threshold)
                            THEN @
                            ELSE Append(@, Grain(candidate_slice(audio, s), s.tier, s.start))]

SeededAttempt(grain_length) ==
    SeededStart(grain_length,
                [start |-> randint_seeded(rng_next(locals.rng), 0,
                                          Max(1, max_start_of(audio, locals.c)
                                                 - grain_length + 1)),
                 grain_length |-> grain_length, tier |-> "c"])

SeededExtract ==
    /\ pc = "extract"
    /\ Len(locals.grains) < locals.c.num_grains
    /\ IF max_start_of(audio, locals.c) = 0
       THEN SeededShort(randint_seeded(locals.rng, grain_length_min_samples(locals.c),
                                       grain_length_max_samples(locals.c) + 1))
       ELSE /\ locals.attempts < max_attempts(locals.c.num_grains, locals.use_quality_filter)
            /\ SeededAttempt(randint_seeded(locals.rng, grain_length_min_samples(locals.c),
                                            grain_length_max_samples(locals.c) + 1))
    /\ UNCHANGED <<audio, analyzer, librosa, result, history, pc>>

\* extract_grains returns: the second extraction, or the placement
SeededEndExtract ==
    /\ pc = "extract"
    /\ \/ Len(locals.grains) >= locals.c.num_grains
       \/ /\ max_start_of(audio, locals.c) # 0
          /\ locals.attempts >= max_attempts(locals.c.num_grains, locals.use_quality_filter)
    /\ IF after_extract(locals.grains, locals.pass) = "fallback"
       THEN /\ locals' = [locals EXCEPT !.pass = 2, !.use_quality_filter = FALSE,
                                        !.attempts = 0, !.grains = <<>>]
            /\ pc' = pc
       ELSE pc' = "place" /\ locals' = locals
    /\ UNCHANGED <<audio, analyzer, librosa, result, history>>

\* the pool after the pitch shifts and the shuffle
seeded_pool(shifted) == shuffle_seeded(shifted.grains, Len(shifted.grains) - 1, shifted.rng)

\* what a run hands back, with the random choices it drew
RunOutcome(pool, draws, c, cloud_duration_sec, overlap_quarters) ==
    [op |-> "create_cloud",
     cloud |-> place_and_finish(pool.grains, c, SecToSamples(cloud_duration_sec, c.sr),
                                overlap_quarters).out,
     pool |-> pool.grains,
     draws |-> draws]

\* pitch shifts, shuffle, placement and fades; the first run is kept and the
\* second begins
SeededSynthesize ==
    /\ pc = "place"
    /\ result' = RunOutcome(seeded_pool(pitch_shifts_seeded(locals.grains, 1, locals.rng,
                                                            locals.placement.pitch_shift_min,
                                                            locals.placement.pitch_shift_max)),
                            locals.draws, locals.c, locals.cloud_duration_sec,
                            locals.placement.overlap_quarters)
    /\ locals' = [locals EXCEPT
                    !.rng = seeded_pool(pitch_shifts_seeded(locals.grains, 1, locals.rng,
                                          locals.placement.pitch_shift_min,
                                          locals.placement.pitch_shift_max)).rng,
                    !.run = IF @ = 1 THEN 2 ELSE @,
                    !.first = IF locals.run = 1 THEN Some(result') ELSE @]
    /\ pc' = IF locals.run = 1 THEN "seed" ELSE "done"
    /\ UNCHANGED <<audio, analyzer, librosa, history>>

NextSeeded == SetRandomSeed \/ SeededExtract \/ SeededEndExtract \/ SeededSynthesize

SpecSeeded == InitSeeded /\ [][NextSeeded]_vars

effective_crossfade(buf, crossfade_ms, rate) ==
    Min(TruncDiv(crossfade_ms * rate, 1000), Len(buf) \div 2)

\* C16 (as stated): whenever the effective crossfade length is below one
\* sample, before or after the clamp to half the buffer,
\* time_domain_crossfade_loop returns an unmodified copy and does not raise.
C16_ShortCrossfadeNoOp ==
    (result.op = "time_domain_crossfade_loop"
       /\ effective_crossfade(audio, locals.crossfade_ms, locals.sr) < 1)
    => result.out = Return(Unfaded(audio))

\* ------------------------------------------------- find_best_loop_trim
FadeLengths == {0, 1, 2, 3}
SearchWindows == {None, Some(2), Some(5)}

InitTrim ==
    /\ audio \in LoopBuffers
    /\ analyzer = None
    /\ librosa = None
    /\ result = [op |-> "none"]
    /\ history = NoHistory
    /\ locals \in [fade_length : FadeLengths, search_window : SearchWindows]
    /\ pc = "trim"

\* trim = find_best_loop_trim(audio, fade_length, search_window)
FindTrim ==
    /\ pc = "trim"
    /\ \E out \in find_best_loop_trim(audio, locals.fade_length, locals.search_window) :
          result' = [op |-> "find_best_loop_trim", out |-> out]
    /\ pc' = "trimmed"
    /\ UNCHANGED <<audio, analyzer, librosa, history, locals>>

NextTrim == FindTrim

SpecTrim == InitTrim /\ [][NextTrim]_vars

\* lines 477-482: the search window after its default and its clamp
search_window_of(buf, fade_length, search_window) ==
    Min(IF search_window = None THEN 4 * fade_length ELSE search_window[1], Len(buf))

\* offset o (0-based) is among the best matches and no later offset is
BestAndLast(corr, o) ==
    /\ \A j \in 1..Len(corr) : corr[j] <= corr[o + 1]
    /\ \A j \in (o + 2)..Len(corr) : corr[j] < corr[o + 1]

FeatureCalled(op, g, an, out) ==
    /\ analyzer' = Some(an)
    /\ result' = [op |-> op, gates |-> g, out |-> out, before |-> analyzer[1]]

\* onset_frames = analyzer._compute_onset_density()
ComputeOnsetDensity ==
    /\ pc = "ready"
    /\ FeatureCalled("_compute_onset_density", DefaultGates,
                     compute_onset_density(analyzer[1], librosa),
                     Return(compute_onset_density(analyzer[1], librosa).onset_frames[1]))
    /\ UNCHANGED <<audio, librosa, history, locals, pc>>

CentroidComputed(r) ==
    FeatureCalled("_compute_spectral_centroid", DefaultGates, r.an,
                  IF r.ok THEN Return(r.an.spectral_centroid[1]) ELSE Raise("ValueError"))

\* centroid = analyzer._compute_spectral_centroid()
ComputeSpectralCentroid ==
    /\ pc = "ready"
    /\ CentroidComputed(compute_spectral_centroid(audio, analyzer[1], librosa))
    /\ UNCHANGED <<audio, librosa, history, locals, pc>>

\* sorted_idx = analyzer.get_sorted_windows(**gates)
GetSortedWindows ==
    /\ pc = "ready"
    /\ \E g \in GateChoices :
         FeatureCalled("get_sorted_windows", g,
                       get_sorted_windows(audio, analyzer[1], librosa, g).an,
                       get_sorted_windows(audio, analyzer[1], librosa, g).out)
    /\ UNCHANGED <<audio, librosa, history, locals, pc>>

\* mask = analyzer.get_stable_regions(**gates)
GetMask ==
    /\ pc = "ready"
    /\ \E g \in GateChoices :
         FeatureCalled("get_stable_regions", g,
                       get_stable_regions(audio, analyzer[1], librosa, g).an,
                       get_stable_regions(audio, analyzer[1], librosa, g).out)
    /\ UNCHANGED <<audio, librosa, history, locals, pc>>

NextFeatures ==
    Construct \/ ComputeOnsetDensity \/ ComputeSpectralCentroid \/ GetSortedWindows \/ GetMask

SpecFeatures == InitAnalyzer /\ [][NextFeatures]_vars

\* the 0-based indices of the windows a predicate on 1-based indices holds for
IndicesWhere(n, P(_)) == {i - 1 : i \in {j \in 1..n : P(j)}}

\* the entries of a sequence are distinct and are exactly the set S
ExactlyOnce(seq, S) ==
    /\ {seq[k] : k \in 1..Len(seq)} = S
    /\ Len(seq) = Cardinality(S)

\* the windows a returned ranking must hold: those a gate predicate passes,
\* or every window when it passes none
RankedAre(passes(_)) ==
    /\ Len(result.out.value) >= 1
    /\ ExactlyOnce(result.out.value,
                   IF IndicesWhere(Len(analyzer[1].rms_curve[1]), passes) # {}
                   THEN IndicesWhere(Len(analyzer[1].rms_curve[1]), passes)
                   ELSE IndicesWhere(Len(analyzer[1].rms_curve[1]), LAMBDA i : TRUE))

\* C17 as stated: the ranking holds exactly the windows that pass the gates of
\* the stability mask (energy, bias, crest, transient rate, optional
\* brightness), each once, or every window when none passes; it is not empty.
C17_Original ==
    (result.op = "get_sorted_windows" /\ result.out.kind = "return")
    => RankedAre(LAMBDA i : WindowPasses(audio, analyzer[1], result.gates, i))

\* C17 amended: the ranking holds exactly the windows that pass the energy,
\* bias, crest and optional brightness gates, each once, or every window when
\* none passes; it is not empty.  The transient rate is not a gate of
\* get_sorted_windows: the onset count is only its first ranking key.
C17_RankedWindows ==
    (result.op = "get_sorted_windows" /\ result.out.kind = "return")
    => RankedAre(LAMBDA i : KeepWindow(analyzer[1], result.gates, i))

\* a ranking of a three-window buffer that leaves out a failing window, and
\* keeps a window whose transient rate is above max_onset_rate
C17_Witness ==
    /\ result.op = "get_sorted_windows"
    /\ result.out.kind = "return"
    /\ Len(analyzer[1].rms_curve[1]) = 3
    /\ Len(result.out.value) \in {1, 2}
    /\ \E k \in 1..Len(result.out.value) :
          /\ KeepWindow(analyzer[1], result.gates, result.out.value[k] + 1)
          /\ ~WindowPasses(audio, analyzer[1], result.gates, result.out.value[k] + 1)

\* C20: on one analyzer, whatever the sequence of onset, centroid, mask and
\* ranking calls, the STFT is computed at most once: the cache, once filled,
\* holds the same object after every later call; and the onset detection
\* runs once: the onset frames, once set, are never replaced.
C20_ComputedOnce ==
    [][(analyzer # None /\ analyzer' # None)
       => /\ analyzer[1].stft_cache # None
               => analyzer'[1].stft_cache = analyzer[1].stft_cache
          /\ analyzer[1].onset_frames # None
               => analyzer'[1].onset_frames = analyzer[1].onset_frames]_vars

\* a call computed the centroid on an analyzer whose onset detection had
\* already cached the STFT, and left the same object in the cache
C20_Witness ==
    /\ result.op = "_compute_spectral_centroid"
    /\ result.out.kind = "return"
    /\ result.before.spectral_centroid = None
    /\ result.before.onset_frames # None
    /\ result.before.stft_cache # None
    /\ analyzer[1].stft_cache = result.before.stft_cache
    /\ analyzer[1].spectral_centroid # None

\* ------------------------------------------------- segment_miner
\* extract_sustained_segments at 8 Hz.  Sources of four and five samples; a
\* mining window of two samples with a hop of one or two; pre-analysis off,
\* or on with an analysis window of two, four or eight samples (the last is
\* longer than every source), an analysis hop of none, one or two samples and
\* a default or loose bias gate.
MinerBuffers == UNION {[1..n -> Amps] : n \in {4, 5}}

MinerPreAnalysis ==
    {[enabled |-> FALSE, analysis_window_sec |-> 1000, analysis_hop_sec |-> 500,
      max_dc_offset |-> 10]}
    \cup {[enabled |-> TRUE, analysis_window_sec |-> w, analysis_hop_sec |-> h,
           max_dc_offset |-> dc] :
            w \in {250, 500, 1000}, h \in {0, 125, 250}, dc \in {10, 30}}

MinerConfigs ==
    {[sr |-> 8, target_duration_sec |-> 250, window_hop_sec |-> hop,
      min_rms_db |-> -40, max_rms_db |-> -10, max_onset_rate |-> 3,
      pre_analysis |-> pre] :
       hop \in {125, 250}, pre \in MinerPreAnalysis}

\* what librosa finds in the source: its onsets (samples) and the starts of
\* the mining windows whose mean spectral flatness is above the threshold
MinerLibrosa ==
    {[stft_ok |-> TRUE, onsets |-> o, bright_from |-> 0, flat_starts |-> f] :
       o \in {{}, {0}}, f \in {{}, {0}}}

\* the gates of the pre-analysis: the pad miner's thresholds when the
\* pre_analysis section names none, its own bias gate, the default crest gate
miner_gates(c) ==
    [max_onset_rate |-> c.max_onset_rate, rms_low_db |-> c.min_rms_db,
     rms_high_db |-> c.max_rms_db, max_dc_offset |-> c.pre_analysis.max_dc_offset,
     max_crest |-> 10, centroid_low_hz |-> None, centroid_high_hz |-> None]

\* lines 106-122: the level, onset-rate and flatness checks of the window at start
WindowSustained(buf, c, lib, start) ==
    /\ DbGE(rms_energy_db(Slice(buf, start, start + SecToSamples(c.target_duration_sec, c.sr))),
            c.min_rms_db)
    /\ DbLE(rms_energy_db(Slice(buf, start, start + SecToSamples(c.target_duration_sec, c.sr))),
            c.max_rms_db)
    /\ ~(OnsetsIn(lib.onsets, start, start + SecToSamples(c.target_duration_sec, c.sr)) * 1000
           > c.max_onset_rate * c.target_duration_sec)
    /\ start \notin lib.flat_starts

\* lines 125-131: analyzer_window_idx = start // int(analyzer.hop_sec * sr); the
\* window is rejected only when that index lies in the mask and is False
MaskAllows(c, pre, start) ==
    pre # None
    => (start \div SecToSamples(pre[1].an.hop_sec, c.sr) < Len(pre[1].mask)
          => pre[1].mask[start \div SecToSamples(pre[1].an.hop_sec, c.sr) + 1])

\* range(0, len(audio) - window_samples, hop_samples)
mining_starts(buf, c) ==
    Range0(Len(buf) - SecToSamples(c.target_duration_sec, c.sr),
           SecToSamples(c.window_hop_sec, c.sr))

\* the sliding-window loop (lines 102-134); pre is None or <<[an, mask]>>
mined(buf, c, lib, pre) ==
    IF /\ pre # None
       /\ SecToSamples(pre[1].an.hop_sec, c.sr) = 0
       /\ \E k \in 1..Len(mining_starts(buf, c)) :
             WindowSustained(buf, c, lib, mining_starts(buf, c)[k])
    THEN [out |-> Raise("ZeroDivisionError"), pre |-> pre]
    ELSE [out |-> Return(SelectSeq(
                    [k \in 1..Len(mining_starts(buf, c)) |->
                       <<mining_starts(buf, c)[k],
                         mining_starts(buf, c)[k] + SecToSamples(c.target_duration_sec, c.sr)>>],
                    LAMBDA cand : WindowSustained(buf, c, lib, cand[1])
                                  /\ MaskAllows(c, pre, cand[1]))),
          pre |-> pre]

\* lines 77-83: stable_mask = analyzer.get_stable_regions(...)
mined_with_mask(buf, c, lib, r) ==
    IF r.out.kind = "raise" THEN [out |-> r.out, pre |-> None]
    ELSE mined(buf, c, lib, Some([an |-> r.an, mask |-> r.out.value]))

\* line 76: analyzer = AudioAnalyzer(audio, sr, window_size_sec, hop_sec)
mined_with_analyzer(buf, c, lib, r) ==
    IF r.kind = "raise" THEN [out |-> r, pre |-> None]
    ELSE mined_with_mask(buf, c, lib, get_stable_regions(buf, r.value, lib, miner_gates(c)))

\* extract_sustained_segments(audio, sr, ..., use_pre_analysis=True, config):
\* the outcome, and the analyzer and mask it built if any
extract_sustained_segments(buf, c, lib) ==
    IF Len(buf) < SecToSamples(c.target_duration_sec, c.sr)
    THEN [out |-> Return(<<>>), pre |-> None]
    ELSE IF c.pre_analysis.enabled
    THEN mined_with_analyzer(buf, c, lib,
                             AudioAnalyzer__init__(buf, c.sr, c.pre_analysis.analysis_window_sec,
                                                   c.pre_analysis.analysis_hop_sec))
    ELSE mined(buf, c, lib, None)

InitMiner ==
    /\ audio \in MinerBuffers
    /\ analyzer = None
    /\ librosa \in MinerLibrosa
    /\ result = [op |-> "none"]
    /\ history = NoHistory
    /\ locals \in MinerConfigs
    /\ pc = "mine"

\* candidates = extract_sustained_segments(audio, ...)
Mine ==
    /\ pc = "mine"
    /\ result' = [op |-> "extract_sustained_segments",
                  out |-> extract_sustained_segments(audio, locals, librosa).out,
                  pre |-> extract_sustained_segments(audio, locals, librosa).pre]
    /\ pc' = "mined"
    /\ UNCHANGED <<audio, analyzer, librosa, history, locals>>

NextMiner == Mine

SpecMiner == InitMiner /\ [][NextMiner]_vars

\* C19 (as stated): with pre-analysis enabled and an analyzer built, every
\* candidate the miner returns starts in an analyzer window (start divided by
\* the analyzer's hop) that exists in the stability mask and is True there.
C19_InsideMask ==
    (result.op = "extract_sustained_segments" /\ result.out.kind = "return"
       /\ result.pre # None)
    => \A k \in 1..Len(result.out.value) :
          /\ result.out.value[k][1] \div SecToSamples(result.pre[1].an.hop_sec, locals.sr)
               < Len(result.pre[1].mask)
          /\ result.pre[1].mask[result.out.value[k][1]
                                  \div SecToSamples(result.pre[1].an.hop_sec, locals.sr) + 1]


\* ------------------------------------------------- analyzer: cache frame
\* The public operations of a constructed analyzer, in any order: masks for
\* any gates, with or without verbose, sampling from a stable run and ranked
\* windows.  The grain extraction and the segment miner reach the analyzer
\* through these three calls only.
NextCache == Construct \/ GetStableRegions \/ SampleFromStableRegion \/ GetSortedWindows

SpecCache == InitAnalyzer /\ [][NextCache]_vars

\* the cache after the step
TheDictNext == IF analyzer' = None \/ analyzer'[1].stability_mask = None
               THEN <<>> ELSE analyzer'[1].stability_mask[1]

\* C21: a stability mask stored in the cache under a gate key is never
\* changed afterwards: whatever operation runs next, the key is still in the
\* cache and holds the same mask.
C21_MaskFrame ==
    [][\A k \in DOMAIN TheDict : k \in DOMAIN TheDictNext /\ TheDictNext[k] = TheDict[k]]_vars

\* ranked windows were computed while the cache held two different masks
C21_Witness ==
    /\ result.op = "get_sorted_windows"
    /\ result.out.kind = "return"
    /\ result.before.stability_mask # None
    /\ \E k1, k2 \in DOMAIN TheDict : TheDict[k1] # TheDict[k2]


\* ------------------------------------------------- analyzer: window count
\* the number of windows of ws samples that start at a multiple of hop and lie
\* fully inside a buffer of n samples
FullWindows(n, ws, hop) == Cardinality({k \in 0..n : k * hop + ws <= n})

\* a cached per-window array, when present, has n entries
HasLength(cached, n) == cached # None => Len(cached[1]) = n

\* every per-window array of the analyzer and every cached mask has n entries
AllCurvesHaveLength(an, n) ==
    /\ HasLength(an.rms_curve, n)
    /\ HasLength(an.dc_offset, n)
    /\ HasLength(an.crest_factor, n)
    /\ HasLength(an.spectral_centroid, n)
    /\ \A k \in DOMAIN TheDict : Len(TheDict[k]) = n

AnyCurve(an) ==
    \/ an.rms_curve # None
    \/ an.dc_offset # None
    \/ an.crest_factor # None
    \/ an.spectral_centroid # None
    \/ DOMAIN TheDict # {}

\* C22: on a non-empty buffer every mask and every per-window feature array
\* of a constructed analyzer has one entry per window that starts at a
\* multiple of the hop and lies fully inside the buffer; a window longer than
\* the buffer makes window and hop the buffer length, and the count is 1.
C22_WindowCount ==
    (analyzer # None /\ Len(audio) >= 1) =>
      /\ AnyCurve(analyzer[1]) => analyzer[1].hop_samples >= 1
      /\ AllCurvesHaveLength(analyzer[1],
                             FullWindows(Len(audio), analyzer[1].window_size_samples,
                                         analyzer[1].hop_samples))
      /\ (result.op = "get_stable_regions" /\ result.out.kind = "return") =>
           Len(result.out.value) = FullWindows(Len(audio), analyzer[1].window_size_samples,
                                               analyzer[1].hop_samples)
      /\ SecToSamples(analyzer[1].window_size_sec, analyzer[1].sr) > Len(audio) =>
           /\ analyzer[1].window_size_samples = Len(audio)
           /\ analyzer[1].hop_samples = Len(audio)
           /\ FullWindows(Len(audio), Len(audio), Len(audio)) = 1

\* a mask of three windows over four samples (the window at the last sample
\* would be partial), with every feature array computed
C22_Witness ==
    /\ analyzer # None
    /\ Len(audio) = 4
    /\ result.op = "get_stable_regions"
    /\ result.out.kind = "return"
    /\ Len(result.out.value) = 3
    /\ analyzer[1].spectral_centroid # None
    /\ analyzer[1].crest_factor # None
    /\ analyzer[1].dc_offset # None

\* a window longer than the buffer: one window over the whole buffer
C22_CollapsedWitness ==
    /\ analyzer # None
    /\ SecToSamples(analyzer[1].window_size_sec, analyzer[1].sr) > Len(audio)
    /\ result.op = "get_stable_regions"
    /\ result.out.kind = "return"
    /\ Len(result.out.value) = 1


\* ------------------------------------------- extract_grains called directly
\* extract_grains(audio, ..., use_quality_filter, min_quality, analyzer, ...)
\* with either value of use_quality_filter and with or without an analyzer
\* built over the same audio.

\* the analyzer argument: None, or an AudioAnalyzer over the audio
analyzer_argument(buf, c, r) ==
    IF c.pre_analysis.enabled /\ r.kind = "return" THEN Some(r.value) ELSE None

InitExtract ==
    /\ audio \in CloudBuffers
    /\ result = [op |-> "none"]
    /\ history = NoHistory
    /\ locals \in [c : CloudConfigs, pass : {0}, use_quality_filter : BOOLEAN,
                   with_analyzer : {FALSE}, stable_mask : {None}, attempts : {0},
                   grains : {<<>>}]
    /\ librosa \in CloudLibrosa(locals.c)
    /\ analyzer = analyzer_argument(audio, locals.c,
                                    AudioAnalyzer__init__(audio, locals.c.sr,
                                                          locals.c.pre_analysis.analysis_window_sec,
                                                          locals.c.pre_analysis.analysis_hop_sec))
    /\ pc = "call"

\* extract_grains up to its loop (lines 155-194)
CallExtract ==
    /\ pc = "call"
    /\ EnterExtract(0, locals.use_quality_filter, analyzer, analyzer # None)
    /\ UNCHANGED <<audio, librosa, history>>

\* return grains (lines 173 and 277)
ReturnGrains ==
    /\ LoopOver
    /\ pc' = "returned"
    /\ result' = [op |-> "extract_grains", out |-> Return(locals.grains)]
    /\ UNCHANGED <<audio, analyzer, librosa, history, locals>>

NextExtract == CallExtract \/ ExtractShort \/ ExtractAttempt \/ ReturnGrains

SpecExtract == InitExtract /\ [][NextExtract]_vars

\* the retry loop is about to make an attempt
Attempting == pc = "attempt" /\ ~LoopOver

MaskHasTrue ==
    locals.stable_mask # None /\ \E i \in 1..Len(locals.stable_mask[1]) : locals.stable_mask[1][i]

\* sample_from_stable_region returns a region for a grain of grain_length samples
StableRunFound(grain_length) ==
    sample_from_stable_region(audio, analyzer[1], (grain_length * 1000) \div locals.c.sr,
                              locals.c.min_stable_windows, locals.stable_mask[1]) # {None}

\* the choices of the attempt for one grain length
AttemptChoices(grain_length) ==
    attempt_starts(audio, IF locals.with_analyzer THEN analyzer ELSE None, librosa, locals.c,
                   locals.use_quality_filter, locals.stable_mask,
                   max_start_of(audio, locals.c), grain_length)

\* the tier of choice s is the first one in the order (a), (b), (c) that
\* applies; random_allowed says when (c) may be used
TierInOrder(grain_length, s, random_allowed) ==
    /\ (locals.with_analyzer /\ MaskHasTrue /\ StableRunFound(grain_length)) => s.tier = "a"
    /\ s.tier = "a" => locals.with_analyzer /\ MaskHasTrue
    /\ s.tier = "b" =>
         locals.with_analyzer /\ (~MaskHasTrue \/ ~StableRunFound(grain_length))
    /\ s.tier = "c" => random_allowed

AllInOrder(random_allowed) ==
    \A grain_length \in randint(grain_length_min_samples(locals.c),
                                grain_length_max_samples(locals.c) + 1) :
       \A s \in AttemptChoices(grain_length) : TierInOrder(grain_length, s, random_allowed)

MaxRetryGrains == 3

AttemptOutcomes(use_quality_filter) ==
    IF use_quality_filter THEN {"kept", "rejected", "raised"} ELSE {"kept"}

InitRetry ==
    /\ audio = <<>>
    /\ analyzer = None
    /\ librosa = None
    /\ result = [op |-> "none"]
    /\ history = NoHistory
    /\ locals \in [num_grains : 0..MaxRetryGrains, use_quality_filter : BOOLEAN,
                   attempts : {0}, grains : {0}]
    /\ pc = "attempt"

\* while len(grains) < num_grains and attempts < max_attempts
RetryCondition ==
    /\ locals.grains < locals.num_grains
    /\ locals.attempts < max_attempts(locals.num_grains, locals.use_quality_filter)

\* attempts += 1 (line 197), then "continue" (line 270) or grains.append (line 275)
after_attempt(l, outcome) ==
    [l EXCEPT !.attempts = @ + 1, !.grains = IF outcome = "kept" THEN @ + 1 ELSE @]

\* one iteration of the loop
RetryAttempt ==
    /\ pc = "attempt"
    /\ RetryCondition
    /\ \E outcome \in AttemptOutcomes(locals.use_quality_filter) :
         IF outcome = "raised"
         THEN /\ pc' = "done"
              /\ result' = [op |-> "extract_grains", out |-> Raise("ValueError")]
              /\ locals' = locals
         ELSE /\ locals' = after_attempt(locals, outcome)
              /\ UNCHANGED <<pc, result>>
    /\ UNCHANGED <<audio, analyzer, librosa, history>>

\* return grains (line 277)
RetryReturn ==
    /\ pc = "attempt"
    /\ ~RetryCondition
    /\ pc' = "returned"
    /\ result' = [op |-> "extract_grains", out |-> Return(locals.grains)]
    /\ UNCHANGED <<audio, analyzer, librosa, history, locals>>

NextRetry == RetryAttempt \/ RetryReturn

SpecRetry == InitRetry /\ [][NextRetry]_vars

\* The loop runs without waiting on anything: while an iteration is possible
\* one happens, and when the loop condition fails the function returns.
SpecRetryFair == SpecRetry /\ WF_vars(RetryAttempt) /\ WF_vars(RetryReturn)

\* the attempt budget as the statement gives it
AttemptBudget == IF locals.use_quality_filter THEN locals.num_grains * 10
                 ELSE locals.num_grains

\* C24: the retry loop terminates: never more than count * 10 attempts with
\* quality filtering on (count with it off), every iteration that completes
\* adds one to the attempts whether it kept or rejected its candidate, the
\* pool never holds more than count grains, the loop always comes to its
\* return (or raises), and with filtering off the returned pool holds exactly
\* count grains.
C24_LoopTerminates ==
    /\ [](locals.attempts <= AttemptBudget /\ locals.grains <= locals.num_grains)
    /\ [][(pc = "attempt" /\ pc' = "attempt") => locals'.attempts = locals.attempts + 1]_vars
    /\ <>(pc \in {"returned", "done"})
    /\ []((pc = "returned" /\ ~locals.use_quality_filter) =>
            result.out.value = locals.num_grains)

\* a call that used its whole budget of count * 10 attempts, some of them on
\* rejected candidates, and returned fewer than count grains
C24_Witness ==
    /\ pc = "returned"
    /\ locals.use_quality_filter
    /\ locals.num_grains >= 2
    /\ locals.attempts = locals.num_grains * 10
    /\ result.out.value = locals.num_grains - 1


\* ------------------------------------------- extract_grains: the quality gate
\* grain is the Hann-windowed form of the slice of n samples at its start,
\* zero-padded where the buffer ends
IsWindowedSlice(grain, n) ==
    /\ Len(grain.samples) = n
    /\ grain.raw = [i \in 1..n |-> IF grain.start + i <= Len(audio)
                                   THEN audio[grain.start + i] ELSE 0]
    /\ \A i \in 1..n : grain.samples[i] = grain.raw[i] * hann_window(n)[i]

\* the score of the unwindowed slice is at least the gate (exact fractions)
ScoreAtLeast(score, gate) == score[1] * gate[2] >= gate[1] * score[2]

\* C25: with quality filtering on and a buffer longer than the longest grain,
\* every grain of the returned pool is the Hann-windowed form of a slice of
\* the buffer whose quality score, taken on the unwindowed zero-padded slice,
\* is at least the gate; no candidate that scores below the gate is kept.
C25_QualityGate ==
    (pc = "returned" /\ locals.use_quality_filter /\ max_start_of(audio, locals.c) > 0) =>
      \A i \in 1..Len(result.out.value) :
         /\ IsWindowedSlice(result.out.value[i], Len(result.out.value[i].raw))
         /\ ScoreAtLeast(analyze_grain_quality(result.out.value[i].raw, locals.c.sr,
                                               DefaultChecks),
                         locals.c.grain_quality_threshold)

\* a returned pool with a kept grain, after an attempt whose candidate was rejected
C25_Witness ==
    /\ pc = "returned"
    /\ locals.use_quality_filter
    /\ max_start_of(audio, locals.c) > 0
    /\ Len(result.out.value) >= 1
    /\ locals.attempts > Len(result.out.value)


\* ------------------------------------------- extract_grains: random starts
\* C26: without an analyzer the start of an attempt is drawn over the whole
\* buffer: for a buffer of L samples and a drawn grain length g, every start
\* s with 0 <= s <= L - g is a possible choice.
C26_WholeBuffer ==
    (Attempting /\ ~locals.with_analyzer) =>
      \A grain_length \in randint(grain_length_min_samples(locals.c),
                                  grain_length_max_samples(locals.c) + 1) :
         \A start \in 0..(Len(audio) - grain_length) :
            \E s \in AttemptChoices(grain_length) : s.tier = "c" /\ s.start = start


\* ------------------------------------------- get_sorted_windows: the order
\* the onsets inside window w (0-based) of the analyzer
OnsetsOfWindow(w) ==
    Cardinality({o \in analyzer[1].onset_frames[1] :
                   /\ o >= w * analyzer[1].hop_samples
                   /\ o < w * analyzer[1].hop_samples + analyzer[1].window_size_samples})

\* window v may not come after window w: it has more onsets, or as many and
\* a larger distance of its level from -24 dB
RanksAfter(v, w) ==
    \/ OnsetsOfWindow(v) > OnsetsOfWindow(w)
    \/ /\ OnsetsOfWindow(v) = OnsetsOfWindow(w)
       /\ RmsDistLess(analyzer[1].rms_curve[1][w + 1], analyzer[1].rms_curve[1][v + 1])

\* the position of window w in a ranking that holds it
PositionIn(ranking, w) == CHOOSE k \in 1..Len(ranking) : ranking[k] = w

\* gates that keep every window
OpenGates == [max_onset_rate |-> 3, rms_low_db |-> -80, rms_high_db |-> 0,
              max_dc_offset |-> 200, max_crest |-> 1000,
              centroid_low_hz |-> None, centroid_high_hz |-> None]

\* C27: the indices get_sorted_windows returns are in ascending order of
\* onset count and, among equal counts, of |level - (-24 dB)|; the gates only
\* remove windows: two returned windows stand in the order they have in the
\* ranking of all windows.
C27_RankingOrder ==
    (result.op = "get_sorted_windows" /\ result.out.kind = "return") =>
      \A k, l \in 1..Len(result.out.value) :
         k < l =>
           /\ ~RanksAfter(result.out.value[k], result.out.value[l])
           /\ PositionIn(get_sorted_windows(audio, analyzer[1], librosa, OpenGates).out.value,
                         result.out.value[k])
              < PositionIn(get_sorted_windows(audio, analyzer[1], librosa, OpenGates).out.value,
                           result.out.value[l])

\* a ranking of three windows against the index order: the first two have
\* equal onset counts and are ordered by level, the last has more onsets
C27_Witness ==
    /\ result.op = "get_sorted_windows"
    /\ result.out.kind = "return"
    /\ Len(result.out.value) = 3
    /\ result.out.value[1] > result.out.value[2]
    /\ result.out.value[2] > result.out.value[3]
    /\ OnsetsOfWindow(result.out.value[1]) = OnsetsOfWindow(result.out.value[2])
    /\ OnsetsOfWindow(result.out.value[2]) < OnsetsOfWindow(result.out.value[3])

\* a ranking the gates removed a window from, against the index order
C27_FilteredWitness ==
    /\ result.op = "get_sorted_windows"
    /\ result.out.kind = "return"
    /\ Len(result.out.value) >= 2
    /\ Len(result.out.value) < Len(analyzer[1].rms_curve[1])
    /\ \E k \in 1..(Len(result.out.value) - 1) : result.out.value[k] > result.out.value[k + 1]


\* ------------------------------------------- segment_miner: the windows
\* the starts k * hop whose window of W samples fits inside a buffer of n samples
FittingStarts(n, W, hop) == {start \in 0..n : start % hop = 0 /\ start + W <= n}

\* C28: without pre-analysis extract_sustained_segments returns exactly the
\* windows [k * hop, k * hop + W) that fit inside the buffer and pass the
\* level, transient-rate and tonality checks, by increasing start; a buffer
\* shorter than W gives the empty list.
C28_FittingWindows ==
    (result.op = "extract_sustained_segments" /\ ~locals.pre_analysis.enabled) =>
      /\ result.out.kind = "return"
      /\ \A k \in 1..(Len(result.out.value) - 1) :
            result.out.value[k][1] < result.out.value[k + 1][1]
      /\ {result.out.value[k] : k \in 1..Len(result.out.value)}
           = {<<start, start + SecToSamples(locals.target_duration_sec, locals.sr)>> :
                start \in {st \in FittingStarts(Len(audio),
                                                SecToSamples(locals.target_duration_sec,
                                                             locals.sr),
                                                SecToSamples(locals.window_hop_sec, locals.sr)) :
                             WindowSustained(audio, locals, librosa, st)}}


\* ------------------------------------------- crossfade loop: fade regions
\* crossfade_samples after the clamp, for the call of the current state
ClampedCrossfade ==
    Min(TruncDiv(locals.crossfade_ms * locals.sr, 1000), Len(audio) \div 2)

\* the 1-based positions of the returned buffer a fade curve has scaled
FadedIn(out) == {i \in 1..Len(out) : out[i].fade_in # None}
FadedOut(out) == {i \in 1..Len(out) : out[i].fade_out # None}

\* C30: a call that gets past the guard fades with at most half the input
\* length; what remains after the optional trim is at least twice the
\* crossfade long, the fade-in covers the first crossfade_samples samples
\* and the fade-out the last, and no sample is scaled by both curves.
C30_FadesDisjoint ==
    (/\ result.op = "time_domain_crossfade_loop"
     /\ result.out.kind = "return"
     /\ TruncDiv(locals.crossfade_ms * locals.sr, 1000) >= 1)
    => /\ 2 * ClampedCrossfade <= Len(audio)
       /\ Len(result.out.value) >= 2 * ClampedCrossfade
       /\ FadedIn(result.out.value) = 1..ClampedCrossfade
       /\ FadedOut(result.out.value)
            = (Len(result.out.value) - ClampedCrossfade + 1)..Len(result.out.value)
       /\ FadedIn(result.out.value) \cap FadedOut(result.out.value) = {}

\* an aligned loop that lost samples to the trim and is faded at both ends
C30_Witness ==
    /\ result.op = "time_domain_crossfade_loop"
    /\ result.out.kind = "return"
    /\ locals.optimize_loop
    /\ ClampedCrossfade >= 2
    /\ Len(result.out.value) < Len(audio)
    /\ FadedIn(result.out.value) # {}
    /\ FadedOut(result.out.value) # {}

\* a crossfade of exactly half the returned buffer: the two regions meet
C30_TightWitness ==
    /\ result.op = "time_domain_crossfade_loop"
    /\ result.out.kind = "return"
    /\ ClampedCrossfade >= 2
    /\ Len(result.out.value) = 2 * ClampedCrossfade


\* ------------------------------------------- the caller's buffer in memory
\* numpy arrays by reference.  An array value here is the caller's buffer
\* (input), the contents of the array at hand (arr), and whether that array
\* is a view into the caller's buffer (view = <<offset>>) or owns its memory
\* (view = None).  Basic slicing gives a view; .copy(), arithmetic, np.pad
\* and np.clip give a new array; an in-place operator writes through a view.
MaxFrameLen == 6

FrameBuffers == UNION {[1..n -> {0, 20}] : n \in 1..MaxFrameLen}

\* the parameter "audio" of a call: the caller's own array
Param(buf) == [input |-> buf, arr |-> buf, view |-> Some(0)]

\* a[start:stop]
ndarray_slice(a, start, stop) ==
    [input |-> a.input, arr |-> Slice(a.arr, start, stop),
     view |-> IF a.view = None THEN None
              ELSE Some(a.view[1] + Min(Max(start, 0), Len(a.arr)))]

\* the result of an expression or of a function that allocates
ndarray_new(a, data) == [input |-> a.input, arr |-> data, view |-> None]

\* audio_out = audio: a second name for the same array
ndarray_no_copy(a) == a

\* audio_out = audio.copy()
ndarray_copy(a) == [a EXCEPT !.view = None]

\* a[...] op= ...: the array holds data afterwards, and so does the part of the
\* caller's buffer it is a view of
ndarray_store(a, data) ==
    [input |-> IF a.view = None THEN a.input
               ELSE [j \in 1..Len(a.input) |->
                       IF j > a.view[1] /\ j <= a.view[1] + Len(data)
                       THEN data[j - a.view[1]] ELSE a.input[j]],
     arr |-> data,
     view |-> a.view]

\* the contents of array a when the caller's buffer holds input
ndarray_read(input, a) ==
    IF a.view = None THEN a.arr ELSE Slice(input, a.view[1], a.view[1] + Len(a.arr))

\* a sample times a fade gain <<num, den>>, rounded down
ScaleBy(x, f) == (x * f[1]) \div f[2]

\* audio_out[:fade_length] *= np.linspace(0, 1, fade_length)
fade_in_place(a, n) ==
    ndarray_store(a, [i \in 1..Len(a.arr) |->
                        IF i <= n THEN ScaleBy(a.arr[i], Linspace01(n, i - 1)) ELSE a.arr[i]])

\* audio_out[-fade_length:] *= np.linspace(1, 0, fade_length)
fade_out_in_place(a, n) ==
    ndarray_store(a, [i \in 1..Len(a.arr) |->
                        IF i > Len(a.arr) - n
                        THEN ScaleBy(a.arr[i], Linspace10(n, i - (Len(a.arr) - n) - 1))
                        ELSE a.arr[i]])

\* apply_fade_in and apply_fade_out for fade_length >= 1
apply_fade_in(a, fade_length) ==
    fade_in_place(ndarray_copy(a), Min(fade_length, Len(a.arr)))

apply_fade_out(a, fade_length) ==
    fade_out_in_place(ndarray_copy(a), Min(fade_length, Len(a.arr)))

\* normalize_audio on a sounding buffer: audio * gain, then np.clip
normalize_audio_arrays(a, gain) ==
    ndarray_new(ndarray_new(a, [i \in 1..Len(a.arr) |-> a.arr[i] * gain]),
                [i \in 1..Len(a.arr) |-> Min(Max(a.arr[i] * gain, -100), 100)])

\* time_domain_crossfade_loop, lines 576 and 570-578 with linear curves: src is
\* "audio" after the trim, out is audio_out
tdcl_overlap_add(out, src, cf) ==
    ndarray_store(out, [i \in 1..Len(out.arr) |->
                          IF i <= cf
                          THEN out.arr[i]
                               + ScaleBy(ndarray_read(out.input, src)[Len(src.arr) - cf + i],
                                         Linspace10(cf, i - 1))
                          ELSE out.arr[i]])

tdcl_arrays(src, cf) ==
    tdcl_overlap_add(fade_in_place(fade_out_in_place(ndarray_copy(src), cf), cf), src, cf)

\* lines 540-578 for a trim find_best_loop_trim returned: the guard returns a
\* copy, audio[:-trim] is a view, the fades are written into audio_out
time_domain_crossfade_loop_arrays(a, crossfade_samples, trim) ==
    IF crossfade_samples < 1 THEN ndarray_copy(a)
    ELSE tdcl_arrays(IF trim > 0 THEN ndarray_slice(a, 0, Len(a.arr) - trim) ELSE a,
                     Min(crossfade_samples, Len(a.arr) \div 2))

\* the trims the alignment can find for the clamped crossfade (none without it)
LoopTrims(buf, crossfade_samples, optimize_loop) ==
    IF optimize_loop /\ crossfade_samples >= 1
    THEN {t.value : t \in {o \in find_best_loop_trim(
                                   buf, Min(crossfade_samples, Len(buf) \div 2),
                                   Some(Min(Len(buf) \div 2,
                                            Max(Min(crossfade_samples, Len(buf) \div 2) * 4,
                                                4)))) :
                             o.kind = "return"}}
    ELSE {0}

\* extract_grains, lines 261-275: grain = audio[start:end], np.pad when short,
\* grain = grain * window
grain_arrays(a, start, grain_length) ==
    ndarray_new(ndarray_slice(a, start, Min(start + grain_length, Len(a.arr))),
                Windowed(PadTo(Slice(a.arr, start, Min(start + grain_length, Len(a.arr))),
                               grain_length)))

\* create_cloud, lines 438-455: cloud = np.zeros(cloud_samples), then
\* cloud[current_pos:end_pos] += grain[:grain_len] with the grain at position 0
cloud_arrays(a, start, grain_length, cloud_samples) ==
    ndarray_store(ndarray_new(grain_arrays(a, start, grain_length),
                              [i \in 1..cloud_samples |-> 0]),
                  [i \in 1..cloud_samples |->
                     IF i <= grain_length
                     THEN grain_arrays(a, start, grain_length).arr[i] ELSE 0])

\* find_best_loop_trim, lines 486-487: ref = audio[:fade_length]; ref = ref - np.mean(ref)
fblt_ref_arrays(a, fade_length) ==
    ndarray_new(ndarray_slice(a, 0, fade_length),
                [i \in 1..Len(Slice(a.arr, 0, fade_length)) |->
                   Len(Slice(a.arr, 0, fade_length)) * a.arr[i]
                   - SumSeq(Slice(a.arr, 0, fade_length))])

\* AudioAnalyzer: self.audio = audio, and segment = self.audio[start:end] for
\* the window features, which only read it
analyzer_window_arrays(a, start, window_size_samples) ==
    ndarray_slice(a, start, start + window_size_samples)

FrameFadeLengths == {1, 2, 5}
FrameCrossfades == {0, 1, 2, 8}

InitFrame ==
    /\ audio \in FrameBuffers
    /\ analyzer = None
    /\ librosa = None
    /\ result = [op |-> "none"]
    /\ history = NoHistory
    /\ locals = None
    /\ pc = "caller"

\* a core call on the caller's buffer: what the buffer holds afterwards, and
\* the array the call produced
FrameCall(op, r) ==
    /\ audio' = r.input
    /\ result' = [op |-> op, out |-> r.arr, shares_memory |-> r.view # None]
    /\ UNCHANGED <<analyzer, librosa, history, locals, pc>>

CallAnalyzerWindow ==
    \E start \in 0..(Len(audio) - 1), ws \in 1..2 :
       FrameCall("AudioAnalyzer", analyzer_window_arrays(Param(audio), start, ws))

CallExtractGrain ==
    \E start \in 0..(Len(audio) - 1), grain_length \in 2..3 :
       FrameCall("extract_grains", grain_arrays(Param(audio), start, grain_length))

CallCreateCloud ==
    \E start \in 0..(Len(audio) - 1), grain_length \in 2..3, cloud_samples \in 2..4 :
       FrameCall("create_cloud", cloud_arrays(Param(audio), start, grain_length, cloud_samples))

CallFindTrim ==
    \E fade_length \in 1..2 :
       FrameCall("find_best_loop_trim", fblt_ref_arrays(Param(audio), fade_length))

CallCrossfadeLoop ==
    \E cf \in FrameCrossfades, optimize_loop \in BOOLEAN :
       /\ cf >= 1 => Len(audio) >= 2
       /\ \E trim \in LoopTrims(audio, cf, optimize_loop) :
             FrameCall("time_domain_crossfade_loop",
                       time_domain_crossfade_loop_arrays(Param(audio), cf, trim))

CallNormalize ==
    /\ PeakAbs(audio) > 0
    /\ \E gain \in 1..3 :
          FrameCall("normalize_audio", normalize_audio_arrays(Param(audio), gain))

CallFadeIn ==
    \E n \in FrameFadeLengths : FrameCall("apply_fade_in", apply_fade_in(Param(audio), n))

CallFadeOut ==
    \E n \in FrameFadeLengths : FrameCall("apply_fade_out", apply_fade_out(Param(audio), n))

NextFrame ==
    \/ CallAnalyzerWindow
    \/ CallExtractGrain
    \/ CallCreateCloud
    \/ CallFindTrim
    \/ CallCrossfadeLoop
    \/ CallNormalize
    \/ CallFadeIn
    \/ CallFadeOut

SpecFrame == InitFrame /\ [][NextFrame]_vars

\* C29: the caller's buffer is never modified: whatever core call runs, in
\* any sequence, every sample of the buffer keeps its value; windowing,
\* trimming, scaling and fading write into copies.
C29_BufferUnchanged == [][audio' = audio]_vars

\* a crossfade loop that trimmed its input (a view of the caller's buffer)
\* and wrote fades that changed samples, into an array of its own
C29_Witness ==
    /\ result.op = "time_domain_crossfade_loop"
    /\ ~result.shares_memory
    /\ Len(result.out) < Len(audio)
    /\ \E i \in 1..Len(result.out) : result.out[i] # audio[i]

====
